---------------------------- MODULE Spec2Model ----------------------------
(* AutoProcure quote extraction core (backend/app/ai_processor.py).        *)
(*                                                                         *)
(* Text is modelled as a sequence of atoms: a word (a run of letters), a   *)
(* run of digits, a punctuation character, or a filler sentence (prose of  *)
(* letters and blanks without indicator words, ending in a full stop).     *)
(* Every atom records whether white space precedes it.  The regular        *)
(* expressions of the code become patterns over atoms.  Substring          *)
(* tests ("paid" in text_lower) are decided per word through the table     *)
(* Subs, which lists the indicator strings each vocabulary word contains.  *)
(* Money is counted in cents (125.00 is 12500); a quantity computed as     *)
(* total/unitPrice is a rational number kept as a pair.  Arithmetic is     *)
(* exact decimal arithmetic; where the binary floating point of the code   *)
(* decides differently on an input of the model, the input is listed       *)
(* (FloatAbove).                                                           *)
EXTENDS Integers, Sequences, FiniteSets, TLC

VARIABLES
    pc,               \* position inside analyze_quote / _analyze_quote_with_nlp
    rawText,          \* text_content as passed by the caller
    filename,         \* filename argument
    text,             \* quote_text after _clean_quote_text
    docType,          \* result of _detect_document_type
    vendorName,       \* result of _extract_vendor_name
    detectedCurrency, \* result of _detect_currency
    extracted,        \* the items as _extract_items returned them
    items,            \* the item dicts of _analyze_quote_with_nlp
    strategy,         \* which strategies _extract_items ran and which one produced the items
    nlpResult,        \* the JSON object returned by _analyze_quote_with_nlp
    quote,            \* the VendorQuote returned by analyze_quote
    invoked,          \* the helper methods called so far in this call
    hashSeed,         \* the hash seed of the running process (PYTHONHASHSEED)
    intCoercion,      \* how the installed pydantic turns a float into an int field
    run,              \* 1 for the first call on this input, 2 for the repeated call
    firstQuote,       \* the VendorQuote the first call returned
    auditQuote,       \* the VendorQuote handed to validate_quote or to the detector
    auditText,        \* raw_text handed to the detector (the sentences it has)
    report,           \* what the audit returned, until the caller takes it
    learned,          \* learned_patterns of the detector of each worker process
    patternFile,      \* learned_obfuscation_patterns.json
    worker,           \* what each worker process is doing
    accepted          \* the (category, pattern) pairs that learn_new_pattern accepted

pipelineVars == << pc, rawText, filename, text, docType, vendorName, detectedCurrency,
                   extracted, items, strategy, nlpResult, quote, invoked, hashSeed,
                   intCoercion, run, firstQuote >>

auditVars == << auditQuote, auditText, report, learned, patternFile, worker, accepted >>

vars == << pipelineVars, auditVars >>

-----------------------------------------------------------------------------
(* Bounds of the model.                                                    *)

\* the number of item lines of an input document
MaxItemLines == 2

\* hash seeds are 0..MaxSeed
MaxSeed == 1

-----------------------------------------------------------------------------
(* Atoms.                                                                  *)

Wd(s) == [k |-> "w", s |-> s, v |-> 0, n |-> 0, sp |-> TRUE]

\* a run of n digits with value v
Dg(v, n) == [k |-> "d", s |-> "", v |-> v, n |-> n, sp |-> TRUE]

Pn(s) == [k |-> "p", s |-> s, v |-> 0, n |-> 0, sp |-> TRUE]

Fl(s) == [k |-> "f", s |-> s, v |-> 0, n |-> 0, sp |-> TRUE]

\* the atom written directly after its predecessor
Glue(a) == [a EXCEPT !.sp = FALSE]

IsW(a, s) == a.k = "w" /\ a.s = s

IsP(a, s) == a.k = "p" /\ a.s = s

IsD(a) == a.k = "d"

Filler1 == "All goods are packed by hand and leave our workshop in sturdy boxes that are ready for use upon arrival at your premises."

Filler2 == "Each parcel is checked by two members of our staff before it is handed over to the driver on the same evening."

\* len(word)
WordLen(s) ==
    CASE s = "Item" -> 4
      [] s = "Chair" -> 5
      [] s = "chair" -> 5
      [] s = "Lamp" -> 4
      [] s = "Office" -> 6
      [] s = "Desk" -> 4
      [] s = "x" -> 1
      [] s = "EUR" -> 3
      [] s = "USD" -> 3
      [] s = "GBP" -> 3
      [] s = "INR" -> 3
      [] s = "euros" -> 5
      [] s = "yen" -> 3
      [] s = "currency" -> 8
      [] s = "Invoice" -> 7
      [] s = "Number" -> 6
      [] s = "Bill" -> 4
      [] s = "To" -> 2
      [] s = "Paid" -> 4
      [] s = "Quote" -> 5
      [] s = "Payment" -> 7
      [] s = "Net" -> 3
      [] s = "Total" -> 5
      [] s = "Extract" -> 7
      [] s = "from" -> 4
      [] s = "the" -> 3
      [] s = "document" -> 8
      [] s = Filler1 -> 121
      [] s = Filler2 -> 110
      [] s = "Unknown Vendor" -> 14
      [] s = "A" -> 1
      [] s = "International Business Machines And Office Supplies Corporation" -> 63
      [] s = "Document Type: Receipt" -> 22
      [] s = "Document Type: Invoice" -> 22
      [] s = "Document Type: Quote" -> 20
      [] s = "Analysis Failed - Manual Review Required" -> 40
      [] s = "Please manually review the uploaded document" -> 44
      [] s = "Standard warranty" -> 17
      [] s = "N/A" -> 3
      [] s = "Manual Review Required" -> 22

\* word.lower()
Lower(s) ==
    CASE s = "Item" -> "item"
      [] s = "Chair" -> "chair"
      [] s = "Lamp" -> "lamp"
      [] s = "Office" -> "office"
      [] s = "Desk" -> "desk"
      [] s = "EUR" -> "eur"
      [] s = "USD" -> "usd"
      [] s = "GBP" -> "gbp"
      [] s = "INR" -> "inr"
      [] s = "Invoice" -> "invoice"
      [] s = "Number" -> "number"
      [] s = "Bill" -> "bill"
      [] s = "To" -> "to"
      [] s = "Paid" -> "paid"
      [] s = "Quote" -> "quote"
      [] s = "Payment" -> "payment"
      [] s = "Net" -> "net"
      [] s = "Total" -> "total"
      [] s = "Extract" -> "extract"
      [] OTHER -> s

\* the one-word indicator strings that occur in word.lower()
Subs(s) ==
    CASE s = "Item" -> {"item"}
      [] s = "EUR" -> {"eur"}
      [] s = "USD" -> {"usd"}
      [] s = "GBP" -> {"gbp"}
      [] s = "INR" -> {"inr"}
      [] s = "euros" -> {"eur", "euro", "euros"}
      [] s = "yen" -> {"yen"}
      [] s = "currency" -> {"currency"}
      [] s = "Invoice" -> {"invoice"}
      [] s = "Bill" -> {"bill"}
      [] s = "Paid" -> {"paid"}
      [] s = "Quote" -> {"quote"}
      [] s = "Payment" -> {"payment"}
      [] s = "Net" -> {"net"}
      [] s = "Total" -> {"total"}
      [] s = "Extract" -> {"extract"}
      [] OTHER -> {}

\* the words of the indicator phrases that word.lower() starts with
Prefixes(s) ==
    CASE s = "Payment" -> {"pay", "payment"}
      [] s = "Total" -> {"to", "total"}
      [] OTHER -> {Lower(s)}

\* the words of the indicator phrases that word.lower() ends with
Suffixes(s) == {Lower(s)}

AtomLen(a) ==
    CASE a.k = "w" -> WordLen(a.s)
      [] a.k = "f" -> WordLen(a.s)
      [] a.k = "d" -> a.n
      [] a.k = "p" -> 1

RECURSIVE SumLen(_)
SumLen(ts) ==
    IF ts = << >> THEN 0
    ELSE AtomLen(Head(ts)) + (IF Head(ts).sp THEN 1 ELSE 0) + SumLen(Tail(ts))

\* text.strip(): no white space before the first atom
Strip(ts) == IF ts = << >> THEN ts ELSE << Glue(ts[1]) >> \o Tail(ts)

\* len(text) of a stripped text
TextLen(ts) == SumLen(Strip(ts))

\* the atoms i..j of ts (empty when j < i)
Slice(ts, i, j) == IF j < i THEN << >> ELSE SubSeq(ts, i, j)

\* the least element of a non-empty set of numbers
Least(S) == CHOOSE x \in S : \A y \in S : x <= y

\* the greatest element of a non-empty set of numbers
Greatest(S) == CHOOSE x \in S : \A y \in S : y <= x

\* a needle is a sequence of lower-case words, or one symbol
WordNeedleAt(ts, i, needle) ==
    LET n == Len(needle)
    IN  /\ i + n - 1 <= Len(ts)
        /\ \A j \in 1..n : ts[i + j - 1].k = "w"
        /\ \A j \in 2..n : ts[i + j - 1].sp
        /\ IF n = 1 THEN needle[1] \in Subs(ts[i].s)
           ELSE /\ needle[1] \in Suffixes(ts[i].s)
                /\ needle[n] \in Prefixes(ts[i + n - 1].s)
                /\ \A j \in 2..(n - 1) : Lower(ts[i + j - 1].s) = needle[j]

\* needle in text.lower()
Contains(ts, needle) ==
    \E i \in 1..Len(ts) :
        \/ WordNeedleAt(ts, i, needle)
        \/ Len(needle) = 1 /\ ts[i].k = "p" /\ ts[i].s = needle[1]

ContainsAny(ts, needles) == \E nd \in needles : Contains(ts, nd)

\* any(char.isdigit() for char in text)
HasDigit(ts) == \E i \in 1..Len(ts) : IsD(ts[i])

RECURSIVE Flatten(_)
Flatten(ls) == IF ls = << >> THEN << >> ELSE Head(ls) \o Flatten(Tail(ls))

-----------------------------------------------------------------------------
(* _clean_quote_text: the instruction patterns are removed, then every run *)
(* of white space (line breaks included) becomes one blank and the text is *)
(* stripped.                                                               *)

\* The five patterns, each "A.*?B.*?" or "A.*?" (then b is empty): what is
\* removed is the text from A to the nearest B.  In the first pattern,
\* unitPrice\s+\d+\.\s*Extract vendor name, the gap is a number and a full stop.
InstructionPatterns ==
    << [a |-> << "unitprice" >>, b |-> << "extract", "vendor", "name" >>, gap |-> "number"],
       [a |-> << "look", "for", "payment", "terms" >>, b |-> << >>, gap |-> "any"],
       [a |-> << "if", "multiple", "items", "exist" >>, b |-> << >>, gap |-> "any"],
       [a |-> << "choose" >>, b |-> << "recommendation" >>, gap |-> "any"],
       [a |-> << "extract" >>, b |-> << "from", "the", "document" >>, gap |-> "any"] >>

\* least j >= from with the phrase at j, 0 when there is none
PhraseFrom(ts, needle, from) ==
    LET hits == { j \in from..Len(ts) : WordNeedleAt(ts, j, needle) }
    IN  IF hits = {} THEN 0 ELSE CHOOSE j \in hits : \A h \in hits : j <= h

\* re.sub(pattern, '', text, flags=IGNORECASE | DOTALL)
RECURSIVE RemoveSpans(_, _)
RemoveSpans(ts, p) ==
    IF ts = << >> THEN << >>
    ELSE IF WordNeedleAt(ts, 1, p.a)
         THEN LET k == 1 + Len(p.a)
                  numberGap == /\ k + 2 <= Len(ts) /\ IsD(ts[k]) /\ ts[k].sp
                               /\ IsP(ts[k + 1], ".") /\ ~ts[k + 1].sp
                               /\ WordNeedleAt(ts, k + 2, p.b)
                  j == IF p.b = << >> THEN 1
                       ELSE IF p.gap = "number" THEN (IF numberGap THEN k + 2 ELSE 0)
                       ELSE PhraseFrom(ts, p.b, k)
                  last == IF p.b = << >> THEN Len(p.a) ELSE j + Len(p.b) - 1
              IN  IF j = 0 THEN << ts[1] >> \o RemoveSpans(Tail(ts), p)
                  ELSE RemoveSpans(Slice(ts, last + 1, Len(ts)), p)
         ELSE << ts[1] >> \o RemoveSpans(Tail(ts), p)

RECURSIVE ApplyPatterns(_, _)
ApplyPatterns(ts, ps) ==
    IF ps = << >> THEN ts ELSE ApplyPatterns(RemoveSpans(ts, Head(ps)), Tail(ps))

\* the argument is the document as a sequence of lines
CleanQuoteText(lines) == Strip(ApplyPatterns(Flatten(lines), InstructionPatterns))

-----------------------------------------------------------------------------
(* _detect_document_type                                                   *)

ReceiptIndicators ==
    { << "receipt" >>, << "payment", "received" >>, << "paid" >>, << "total", "paid" >>,
      << "amount", "paid" >>, << "thank", "you", "for", "your", "purchase" >>,
      << "transaction" >>, << "sale" >>, << "purchase" >> }

InvoiceIndicators ==
    { << "invoice" >>, << "bill" >>, << "amount", "due" >>, << "please", "pay" >>,
      << "payment", "due" >>, << "invoice", "number" >>, << "bill", "to" >>,
      << "ship", "to" >> }

QuoteIndicators ==
    { << "quote" >>, << "quotation" >>, << "proposal" >>, << "estimate" >>, << "pricing" >>,
      << "vendor" >>, << "supplier" >>, << "terms", "and", "conditions" >>,
      << "valid", "until" >>, << "quote", "number" >>, << "proposal", "number" >> }

\* DetectDocumentType without the invoice indicators
DetectDocumentTypeWithoutInvoice(ts) ==
    IF ContainsAny(ts, ReceiptIndicators) THEN "receipt" ELSE "quote"

\* DetectDocumentType with the invoice indicators checked before the receipt
\* indicators
DetectDocumentTypeInvoiceFirst(ts) ==
    IF ContainsAny(ts, InvoiceIndicators) THEN "invoice"
    ELSE IF ContainsAny(ts, ReceiptIndicators) THEN "receipt"
    ELSE "quote"

DetectDocumentType(ts) ==
    IF ContainsAny(ts, ReceiptIndicators) THEN "receipt"
    ELSE IF ContainsAny(ts, InvoiceIndicators) THEN "invoice"
    ELSE IF ContainsAny(ts, QuoteIndicators) THEN "quote"
    ELSE "quote"

-----------------------------------------------------------------------------
(* Arithmetic helpers.                                                     *)

Abs(n) == IF n < 0 THEN 0 - n ELSE n

\* round(n / d) as Python 3 rounds: to nearest, ties to the even neighbour
\* (n >= 0, d > 0)
RoundHalfEven(n, d) ==
    LET q == n \div d
        r == n % d
    IN  IF 2 * r < d THEN q
        ELSE IF 2 * r > d THEN q + 1
        ELSE IF q % 2 = 0 THEN q ELSE q + 1

-----------------------------------------------------------------------------
(* Item dicts.  quantity/qden is the quantity (qden = 1 for an int);       *)
(* unitPrice and total are in cents.                                       *)

NoCorrection == [major |-> FALSE, item |-> << >>, original_total |-> 0,
                 corrected_total |-> 0, errNum |-> 0, errDen |-> 1]

NoOriginal == [kept |-> FALSE, unit_price |-> 0, total |-> 0, currency |-> ""]

\* f"ITEM-{n:03d}"
ItemSku(n) == [tag |-> "ITEM", n |-> n, raw |-> << >>]

\* a sku taken from the text
RawSku(ts) == [tag |-> "RAW", n |-> 0, raw |-> ts]

ItemDict(sku, description, qnum, qden, unitPrice, total, correction) ==
    [ sku |-> sku, description |-> description, quantity |-> qnum, qden |-> qden,
      unitPrice |-> unitPrice, deliveryTime |-> "7-10 days", total |-> total,
      correction_info |-> correction, original |-> NoOriginal ]

\* len(description)
DescLen(d) == TextLen(d)

\* description.isdigit()
IsDigitString(d) == d # << >> /\ \A i \in 1..Len(d) : IsD(d[i]) /\ (i > 1 => ~d[i].sp)

\* hash(description): Python salts str hashes with the process's hash seed
RECURSIVE DescCode(_)
DescCode(d) ==
    IF d = << >> THEN 7
    ELSE (31 * DescCode(Tail(d)) + Head(d).v + 17 * AtomLen(Head(d)) + 13 * Len(d)) % 9973

Hash(d, seed) == (DescCode(d) * (2 * seed + 1) + 389 * seed) % 100003

-----------------------------------------------------------------------------
(* _validate_item_values and _validate_and_correct_item                    *)

\* 100000, the largest quantity
MaxQuantity == 100000

\* 100000.00 in cents, the largest unit price
MaxUnitPrice == 10000000

ValidateItemValues(quantity, unit_price, description) ==
    /\ ~(quantity <= 0 \/ quantity > MaxQuantity)
    /\ ~(unit_price <= 0 \/ unit_price > MaxUnitPrice)
    /\ ~(DescLen(description) < 2 \/ IsDigitString(description))

\* The arguments are binary floating-point numbers.  Where the decimal total
\* lies exactly 5% or 20% from quantity * unit_price, these are the candidates
\* whose binary total lies farther from it: float("1.05") is
\* 1.0500000000000000444, so that 1.05 - 1.0 is 0.050000000000000044 and the
\* percentage 5.000000000000004.  For the other candidates with such a total
\* the binary total is exact or lies nearer.
FloatAbove(quantity, unit_price, total_price) ==
    << quantity, unit_price, total_price >> \in
        { << 1, 100, 95 >>, << 1, 100, 105 >>, << 2, 100, 190 >>, << 2, 100, 210 >> }

\* ErrorAbove with >= in the place of >
ErrorAtLeast(quantity, unit_price, total_price, pct) ==
    /\ quantity * unit_price # 0
    /\ Abs(total_price - quantity * unit_price) * 100 >= pct * Abs(quantity * unit_price)

\* percentage_error > pct, for percentage_error =
\* (discrepancy / abs(expected_total)) * 100 if expected_total != 0 else 0
ErrorAbove(quantity, unit_price, total_price, pct) ==
    LET expected_total == quantity * unit_price
        discrepancy == Abs(total_price - expected_total)
    IN  /\ expected_total # 0
        /\ \/ discrepancy * 100 > pct * Abs(expected_total)
           \/ /\ discrepancy * 100 = pct * Abs(expected_total)
              /\ FloatAbove(quantity, unit_price, total_price)

\* The result is a sequence: << >> for None, << item >> otherwise.
ValidateAndCorrectItem(description, qnum, qden, unit_price, total_price, seed) ==
    IF 10 * qnum < qden THEN << >>                      \* quantity < 0.1
    ELSE
    LET quantity == RoundHalfEven(qnum, qden)
        expected_total == quantity * unit_price
        discrepancy == Abs(total_price - expected_total)
        major == ErrorAbove(quantity, unit_price, total_price, 20)
        minor == ErrorAbove(quantity, unit_price, total_price, 5)
        correction_info ==
            IF major
            THEN [major |-> TRUE, item |-> description, original_total |-> total_price,
                  corrected_total |-> expected_total,
                  errNum |-> discrepancy * 100, errDen |-> Abs(expected_total)]
            ELSE NoCorrection
        total == IF major \/ minor THEN expected_total ELSE total_price
    IN  IF quantity <= 0 \/ quantity > MaxQuantity THEN << >>
        ELSE IF unit_price < 0 - MaxUnitPrice \/ unit_price > MaxUnitPrice THEN << >>
        ELSE IF DescLen(description) < 2 THEN << >>
        ELSE IF ~ValidateItemValues(quantity, unit_price, description) THEN << >>
        ELSE << ItemDict(ItemSku(Hash(description, seed) % 1000), description,
                         quantity, 1, unit_price, total, correction_info) >>

-----------------------------------------------------------------------------
(* _detect_currency and _convert_currency                                  *)

CurrencyOrder == << "USD", "EUR", "GBP", "CAD", "AUD", "JPY", "INR", "CNY" >>

\* currency_patterns, as needles; 'US\$', 'C\$', 'A\$' and 'Canadian dollars?',
\* 'Australian dollars?' are left out: a text they match holds "$" or "dollar",
\* which USD, the first entry, matches already
CurrencyPatterns(c) ==
    CASE c = "USD" -> { << "$" >>, << "usd" >>, << "dollar" >>, << "buck" >> }
      [] c = "EUR" -> { << "€" >>, << "eur" >>, << "euro" >> }
      [] c = "GBP" -> { << "£" >>, << "gbp" >>, << "pound" >> }
      [] c = "CAD" -> { << "cad" >> }
      [] c = "AUD" -> { << "aud" >> }
      [] c = "JPY" -> { << "¥" >>, << "jpy" >>, << "yen" >> }
      [] c = "INR" -> { << "₹" >>, << "inr" >>, << "rupee" >> }
      [] c = "CNY" -> { << "¥" >>, << "cny" >>, << "rmb" >>, << "yuan" >> }

DetectCurrency(ts) ==
    LET hits == { i \in 1..Len(CurrencyOrder) : ContainsAny(ts, CurrencyPatterns(CurrencyOrder[i])) }
    IN  IF hits = {} THEN "USD"
        ELSE CurrencyOrder[CHOOSE i \in hits : \A h \in hits : i <= h]

\* self.base_currency, os.getenv('BASE_CURRENCY', 'USD')
BaseCurrency == "USD"

\* self.exchange_rates, in hundredths
ExchangeRates(c) ==
    CASE c = "USD" -> 100
      [] c = "EUR" -> 85
      [] c = "GBP" -> 73
      [] c = "CAD" -> 125
      [] c = "AUD" -> 135
      [] c = "JPY" -> 11000
      [] c = "INR" -> 7500
      [] c = "CNY" -> 650
      [] OTHER -> 100

\* round(amount * rate, 2)
ConvertAmount(cents, rate) ==
    IF cents >= 0 THEN RoundHalfEven(cents * rate, 100)
    ELSE 0 - RoundHalfEven((0 - cents) * rate, 100)

ConvertCurrency(its, from_currency) ==
    IF from_currency = BaseCurrency THEN its
    ELSE LET rate == ExchangeRates(from_currency)
         IN  [ i \in 1..Len(its) |->
                 [ its[i] EXCEPT !.unitPrice = ConvertAmount(its[i].unitPrice, rate),
                                 !.total = ConvertAmount(its[i].total, rate) ] ]

-----------------------------------------------------------------------------
(* Numbers in the text: the regular expression [\d,]+\.?\d* (the numbers   *)
(* of the model carry no thousands separators and at most two decimals).   *)

\* the last atom of the number that starts at the digit run i
NumEnd(ts, i) ==
    IF i + 1 <= Len(ts) /\ IsP(ts[i + 1], ".") /\ ~ts[i + 1].sp
    THEN IF i + 2 <= Len(ts) /\ IsD(ts[i + 2]) /\ ~ts[i + 2].sp THEN i + 2 ELSE i + 1
    ELSE i

\* float(number) in cents
NumCents(ts, i) ==
    LET e == NumEnd(ts, i)
    IN  100 * ts[i].v
        + (IF e = i + 2
           THEN (IF ts[e].n = 1 THEN 10 * ts[e].v
                 ELSE IF ts[e].n = 2 THEN ts[e].v
                 ELSE ts[e].v \div (10 ^ (ts[e].n - 2)))
           ELSE 0)

\* re.findall(r'\$?([\d,]+\.?\d*)', line): where the numbers start
RECURSIVE AmountsFrom(_, _)
AmountsFrom(ts, i) ==
    IF i > Len(ts) THEN << >>
    ELSE IF IsD(ts[i]) THEN << i >> \o AmountsFrom(ts, NumEnd(ts, i) + 1)
    ELSE AmountsFrom(ts, i + 1)

Amounts(ts) == AmountsFrom(ts, 1)

\* \s*\$?([\d,]+\.?\d*) at atom i: the digit run where the number starts, 0 if none
DollarNumAt(ts, i) ==
    IF i > Len(ts) THEN 0
    ELSE IF IsD(ts[i]) THEN i
    ELSE IF IsP(ts[i], "$") /\ i + 1 <= Len(ts) /\ IsD(ts[i + 1]) /\ ~ts[i + 1].sp THEN i + 1
    ELSE 0

\* \$?([\d,]+\.?\d*)\s*x\s*(\d+)\s*=\s*\$?([\d,]+\.?\d*) with the first number at i
XFormatAt(ts, i) ==
    LET e == NumEnd(ts, i)
    IN  /\ e + 4 <= Len(ts)
        /\ IsW(ts[e + 1], "x")
        /\ IsD(ts[e + 2])
        /\ IsP(ts[e + 3], "=")
        /\ DollarNumAt(ts, e + 4) # 0

\* re.search of the "x" format: << >> or << [unit_price, quantity, total_price] >>
XFormatFrom(ts, i, e) ==
    [ unit_price |-> NumCents(ts, i), quantity |-> ts[e + 2].v,
      total_price |-> NumCents(ts, DollarNumAt(ts, e + 4)) ]

XFormatAmong(ts, starts) ==
    IF starts = {} THEN << >>
    ELSE << XFormatFrom(ts, Least(starts), NumEnd(ts, Least(starts))) >>

XFormat(ts) == XFormatAmong(ts, { i \in 1..Len(ts) : IsD(ts[i]) /\ XFormatAt(ts, i) })

\* line.find('$'), as an atom index; 0 when there is no "$"
FirstDollar(ts) ==
    LET hits == { i \in 1..Len(ts) : IsP(ts[i], "$") }
    IN  IF hits = {} THEN 0 ELSE CHOOSE i \in hits : \A h \in hits : i <= h

\* re.sub(r'^[A-Za-z]+:\s*', '', description)
StripLabel(d) ==
    IF Len(d) >= 2 /\ d[1].k = "w" /\ IsP(d[2], ":") /\ ~d[2].sp
    THEN Strip(Slice(d, 3, Len(d))) ELSE d

\* re.sub(r'^[A-Za-z]+\s+[A-Za-z]+:\s*', '', description)
StripTwoWordLabel(d) ==
    IF Len(d) >= 3 /\ d[1].k = "w" /\ d[2].k = "w" /\ d[2].sp /\ IsP(d[3], ":") /\ ~d[3].sp
    THEN Strip(Slice(d, 4, Len(d))) ELSE d

\* if len(description) > 50: re.search(r'Item:\s*([^:]+)', description)
ItemNameOf(d) ==
    LET hits == { i \in 1..Len(d) : /\ IsW(d[i], "Item") /\ i + 2 <= Len(d)
                                    /\ IsP(d[i + 1], ":") /\ ~d[i + 1].sp
                                    /\ (~IsP(d[i + 2], ":") \/ d[i + 2].sp) }
    IN  IF hits = {} THEN d
        ELSE LET i == CHOOSE h \in hits : \A g \in hits : h <= g
                 colons == { j \in (i + 2)..Len(d) : IsP(d[j], ":") }
                 j == IF colons = {} THEN Len(d) + 1
                      ELSE CHOOSE c \in colons : \A g \in colons : c <= g
             IN  Strip(Slice(d, i + 2, j - 1))

SuffixWords == { "quantity", "qty", "price", "cost", "total", "amount", "sum" }

\* re.sub(r'\s+(?:quantity|qty|qty\.?|unit\s+price|price|cost|total|amount|sum)\s*$', '', description)
StripSuffix(d) ==
    LET n == Len(d)
    IN  IF n >= 3 /\ d[n].k = "w" /\ Lower(d[n].s) = "price" /\ d[n].sp
           /\ d[n - 1].k = "w" /\ Lower(d[n - 1].s) = "unit" /\ d[n - 1].sp
        THEN Slice(d, 1, n - 2)
        ELSE IF n >= 2 /\ d[n].k = "w" /\ Lower(d[n].s) \in SuffixWords /\ d[n].sp
        THEN Slice(d, 1, n - 1)
        ELSE IF n >= 3 /\ IsP(d[n], ".") /\ ~d[n].sp /\ d[n - 1].k = "w"
                /\ Lower(d[n - 1].s) = "qty" /\ d[n - 1].sp
        THEN Slice(d, 1, n - 2)
        ELSE d

\* the description of the multi-line branch: the text before the first "$"
ShortDescription(d) == StripSuffix(IF DescLen(d) > 50 THEN ItemNameOf(d) ELSE d)

LineDescription(ts, first_dollar) ==
    ShortDescription(Strip(StripTwoWordLabel(StripLabel(Strip(Slice(ts, 1, first_dollar - 1))))))

\* re.search(r'(?:quantity|qty|qty\.?)\s*:?\s*(\d+)', line, IGNORECASE): << >> or << n >>
QtyMatch(ts) ==
    LET at(i) == IF i + 1 <= Len(ts) /\ IsD(ts[i + 1]) THEN i + 1
                 ELSE IF i + 2 <= Len(ts) /\ IsP(ts[i + 1], ":") /\ IsD(ts[i + 2]) THEN i + 2
                 ELSE 0
        hits == { i \in 1..Len(ts) : /\ ts[i].k = "w"
                                     /\ Suffixes(ts[i].s) \cap { "quantity", "qty" } # {}
                                     /\ at(i) # 0 }
    IN  IF hits = {} THEN << >>
        ELSE << ts[at(CHOOSE i \in hits : \A h \in hits : i <= h)].v >>

\* quantity = total_price / unit_price when 0.1 <= that <= 10000, else 1
CalculatedQuantity(unit_price, total_price) ==
    IF unit_price > 0 /\ 10 * total_price >= unit_price /\ total_price <= 10000 * unit_price
    THEN [num |-> total_price, den |-> unit_price]
    ELSE [num |-> 1, den |-> 1]

-----------------------------------------------------------------------------
(* _intelligent_item_extraction.  The cleaned text holds no line break, so *)
(* text.split('\n') is one line: a line of more than 200 characters is cut *)
(* at every "Item:", any other line is processed as a whole.               *)

SkipWords ==
    { << "vendor" >>, << "supplier" >>, << "quote" >>, << "total" >>, << "subtotal" >>,
      << "date" >>, << "payment" >>, << "delivery" >>, << "terms" >> }

ItemWords ==
    { << "item" >>, << "quantity" >>, << "price" >>, << "sku" >>, << "description" >> }

\* the line only contains skip words
OnlySkipWords(ts) == ContainsAny(ts, SkipWords) /\ ~ContainsAny(ts, ItemWords)

\* "Item:" at atom i (re.split(r'Item:\s*', text_clean))
ItemMarkAt(ts, i) ==
    i + 1 <= Len(ts) /\ IsW(ts[i], "Item") /\ IsP(ts[i + 1], ":") /\ ~ts[i + 1].sp

\* the first "Item:" at or after atom i, Len(ts) + 1 when there is none
NextItemMark(ts, i) ==
    LET hits == { j \in i..Len(ts) : ItemMarkAt(ts, j) }
    IN  IF hits = {} THEN Len(ts) + 1 ELSE CHOOSE j \in hits : \A h \in hits : j <= h

\* f"Item: {section.strip()}"
SectionLine(section) ==
    << Glue(Wd("Item")), Glue(Pn(":")) >>
      \o (IF section = << >> THEN << >> ELSE << [section[1] EXCEPT !.sp = TRUE] >> \o Tail(section))

\* one item section of the long line: << >> or << item >>; no validation here
SectionDict(count, description, q, unit_price, total_price) ==
    IF DescLen(description) < 3 THEN << >>
    ELSE << ItemDict(ItemSku(count + 1), description, q.num, q.den,
                     unit_price, total_price, NoCorrection) >>

\* the prices of the section: the "x" format x if it matched, else the first
\* and the last amount and the quantity calculated from them
SectionPrices(count, description, x, first, last) ==
    IF x # << >>
    THEN SectionDict(count, description, [num |-> x[1].quantity, den |-> 1],
                     x[1].unit_price, x[1].total_price)
    ELSE SectionDict(count, description, CalculatedQuantity(first, last), first, last)

SectionAmounts(line, count, am, fd) ==
    IF Len(am) < 2 THEN << >>
    ELSE IF fd <= 1 THEN << >>
    ELSE SectionPrices(count, Strip(StripLabel(Strip(Slice(line, 1, fd - 1)))),
                       XFormat(line), NumCents(line, am[1]), NumCents(line, am[Len(am)]))

SectionItem(line, count) ==
    IF OnlySkipWords(line) THEN << >>
    ELSE IF ~(Contains(line, << "$" >>) /\ HasDigit(line)) THEN << >>
    ELSE SectionAmounts(line, count, Amounts(line), FirstDollar(line))

\* the sections that follow the "Item:" at atom i
RECURSIVE SectionItems(_, _, _)
SectionItems(ts, i, acc) ==
    IF i > Len(ts) THEN acc
    ELSE SectionItems(ts, NextItemMark(ts, i + 2),
                      acc \o SectionItem(SectionLine(Slice(ts, i + 2, NextItemMark(ts, i + 2) - 1)),
                                         Len(acc)))

\* len(lines[0]) > 200
LongLineItems(ts) == SectionItems(ts, NextItemMark(ts, 1), << >>)

\* any other line: << >> or << item >>.  With two or more amounts and no "x"
\* format, "if quantity == 1" reads a local that was never assigned; the
\* UnboundLocalError is caught and the line yields nothing.
\* lines 614-632: the quantity of a line in the "x" format x
LineQuantity(x, qm) ==
    IF x.quantity # 1 THEN [num |-> x.quantity, den |-> 1]
    ELSE IF qm # << >> THEN [num |-> qm[1], den |-> 1]
    ELSE CalculatedQuantity(x.unit_price, x.total_price)

LineItem(description, q, unit_price, total_price, seed) ==
    IF DescLen(description) < 3 THEN << >>
    ELSE ValidateAndCorrectItem(description, q.num, q.den, unit_price, total_price, seed)

LineAmounts(ts, seed, am, x, fd) ==
    IF Len(am) >= 2 /\ x = << >> THEN << >>
    ELSE IF fd <= 1 THEN << >>
    ELSE IF Len(am) >= 2
    THEN LineItem(LineDescription(ts, fd), LineQuantity(x[1], QtyMatch(ts)),
                  x[1].unit_price, x[1].total_price, seed)
    ELSE LineItem(LineDescription(ts, fd), [num |-> 1, den |-> 1],
                  NumCents(ts, am[1]), NumCents(ts, am[1]), seed)

ShortLineItems(ts, seed) ==
    IF ts = << >> \/ TextLen(ts) < 5 THEN << >>
    ELSE IF OnlySkipWords(ts) THEN << >>
    ELSE IF ~(Contains(ts, << "$" >>) /\ HasDigit(ts)) THEN << >>
    ELSE LineAmounts(ts, seed, Amounts(ts), XFormat(ts), FirstDollar(ts))

IntelligentItemExtraction(ts, seed) ==
    IF TextLen(ts) > 200 THEN LongLineItems(ts) ELSE ShortLineItems(ts, seed)

-----------------------------------------------------------------------------
(* The item patterns of _extract_items.  Each pattern is matched with      *)
(* re.search: the match that starts leftmost wins, a lazy group takes the  *)
(* fewest characters and a greedy number gives characters back when what   *)
(* follows needs them.  The lazy group ([A-Za-z0-9\s\-]+?) lies inside one *)
(* run of words, digit runs, hyphens and blanks; it may end inside a digit *)
(* run when digits follow it directly.  White space is one blank after     *)
(* cleaning.                                                               *)

\* the atom consists of characters of [A-Za-z0-9\-]
DK(a) == a.k = "w" \/ a.k = "d" \/ IsP(a, "-")

\* the first o digits of a digit run, and the remaining ones
DgHead(a, o) == [a EXCEPT !.v = a.v \div (10 ^ (a.n - o)), !.n = o]

DgTail(a, o) == [a EXCEPT !.v = a.v % (10 ^ (a.n - o)), !.n = a.n - o, !.sp = FALSE]

\* the atoms at which a run of [A-Za-z0-9\s\-] starts
Runs(ts) ==
    { a \in 1..Len(ts) : /\ (a = 1 \/ ~DK(ts[a - 1]))
                         /\ (DK(ts[a]) \/ (a > 1 /\ ts[a].sp)) }

\* the last atom of the run that starts at a (a - 1 when the run is one blank)
RunEnd(ts, a) ==
    LET stops == { b \in a..Len(ts) : ~DK(ts[b]) }
    IN  IF stops = {} THEN Len(ts) ELSE (CHOOSE b \in stops : \A c \in stops : b <= c) - 1

\* the number of characters of the atoms a..m-1, leading blank included
Pre(ts, a, m) == SumLen(Slice(ts, a, m - 1))

\* the text of the number that starts o digits into the digit run i
NumText(ts, i, o) ==
    << IF o = 0 THEN Glue(ts[i]) ELSE DgTail(ts[i], o) >> \o Slice(ts, i + 1, NumEnd(ts, i))

\* the group that starts at atom a and ends o digits into atom m
GroupText(ts, a, m, o) ==
    Slice(ts, a, m - 1) \o (IF o = 0 THEN << >> ELSE << DgHead(ts[m], o) >>)

\* int(g): g.strip() is one digit run
IsIntText(g) == Len(g) = 1 /\ IsD(g[1])

IntOf(g) == g[1].v

\* float(g): digits, optionally a full stop and more digits
IsFloatText(g) ==
    /\ Len(g) >= 1 /\ IsD(g[1]) /\ NumEnd(g, 1) = Len(g)

FloatCents(g) == NumCents(g, 1)

\* the least element of a non-empty set of numbers
\* the word x or X
IsX(a) == a.k = "w" /\ (a.s = "x" \/ a.s = "X")

NoMatch == << >>

\* A match is NoMatch or << groups >>, groups being the tuple of the texts
\* the groups captured.

\* after the hyphen at j: \s*\$?(num)\s*x\s*(\d+)\s*=\s*\$?(num)
PriceQtyTotalTail(ts, j) ==
    LET n1 == DollarNumAt(ts, j + 1)
        e1 == NumEnd(ts, n1)
        n2 == DollarNumAt(ts, e1 + 4)
    IN  IF /\ n1 # 0 /\ e1 + 4 <= Len(ts) /\ IsX(ts[e1 + 1]) /\ IsD(ts[e1 + 2])
           /\ IsP(ts[e1 + 3], "=") /\ n2 # 0
        THEN << << NumText(ts, n1, 0), << Glue(ts[e1 + 2]) >>, NumText(ts, n2, 0) >> >>
        ELSE NoMatch

\* after the hyphen at j: \s*(\d+)\s*x\s*\$?(num)\s*=\s*\$?(num)
QtyPriceTotalTail(ts, j) ==
    LET n1 == DollarNumAt(ts, j + 3)
        e1 == NumEnd(ts, n1)
        n2 == DollarNumAt(ts, e1 + 2)
    IN  IF /\ j + 3 <= Len(ts) /\ IsD(ts[j + 1]) /\ IsX(ts[j + 2]) /\ n1 # 0
           /\ e1 + 2 <= Len(ts) /\ IsP(ts[e1 + 1], "=") /\ n2 # 0
        THEN << << << Glue(ts[j + 1]) >>, NumText(ts, n1, 0), NumText(ts, n2, 0) >> >>
        ELSE NoMatch

\* after the hyphen at j: \s*(\d+)\s*x\s*\$?(num)
QtyPriceTail(ts, j) ==
    LET n1 == DollarNumAt(ts, j + 3)
    IN  IF j + 3 <= Len(ts) /\ IsD(ts[j + 1]) /\ IsX(ts[j + 2]) /\ n1 # 0
        THEN << << << Glue(ts[j + 1]) >>, NumText(ts, n1, 0) >> >>
        ELSE NoMatch

\* the hyphens that can end the group which starts at atom a
HyphenCuts(ts, a, Rest(_, _)) ==
    { j \in a..RunEnd(ts, a) : /\ IsP(ts[j], "-")
                               /\ (j > a \/ (a > 1 /\ ts[a].sp))
                               /\ Rest(ts, j) # NoMatch }

\* ([A-Za-z0-9\s\-]+?)\s*-<tail>, the group starting at one of the atoms in starts
HyphenSearch(ts, starts, Rest(_, _)) ==
    LET ok == { a \in starts : HyphenCuts(ts, a, Rest) # {} }
    IN  IF ok = {} THEN NoMatch
        ELSE LET a == Least(ok)
                 j == Least(HyphenCuts(ts, a, Rest))
             IN  << << GroupText(ts, a, j, 0) >> \o Rest(ts, j)[1] >>

\* the atoms that follow an "Item:" (the pattern ignores case)
AfterItemMarks(ts) ==
    { i + 2 : i \in { h \in 1..Len(ts) : /\ h + 2 <= Len(ts) /\ ts[h].k = "w"
                                         /\ Lower(ts[h].s) = "item"
                                         /\ IsP(ts[h + 1], ":") /\ ~ts[h + 1].sp } }

\* Item:\s*(desc)\s*-\s*\$?(num)\s*x\s*(\d+)\s*=\s*\$?(num)
Pattern1(ts) == HyphenSearch(ts, AfterItemMarks(ts), PriceQtyTotalTail)

\* Item:\s*(desc)\s*-\s*(\d+)\s*x\s*\$?(num)\s*=\s*\$?(num)
Pattern2(ts) == HyphenSearch(ts, AfterItemMarks(ts), QtyPriceTotalTail)

\* (desc)\s*-\s*\$?(num)\s*x\s*(\d+)\s*=\s*\$?(num)
Pattern3(ts) == HyphenSearch(ts, Runs(ts), PriceQtyTotalTail)

\* (desc)\s*-\s*(\d+)\s*x\s*\$?(num)\s*=\s*\$?(num)
Pattern4(ts) == HyphenSearch(ts, Runs(ts), QtyPriceTotalTail)

\* (desc)\s*-\s*(\d+)\s*x\s*\$?(num)
Pattern9(ts) == HyphenSearch(ts, Runs(ts), QtyPriceTail)

\* Where the group that starts at atom a and has at least K characters can
\* end when digits (or "$") must follow at atom m: 0 for "before atom m",
\* o > 0 for "o digits into atom m", -1 when it cannot.
CutAt(ts, a, m, K) ==
    LET pre == Pre(ts, a, m)
        ws == IF m > 1 /\ ts[m].sp THEN 1 ELSE 0
        need == K - pre - ws
    IN  IF pre >= K THEN 0
        ELSE IF ws = 1 /\ pre + ws >= K THEN 0
        ELSE IF IsD(ts[m]) /\ need >= 1 /\ need < ts[m].n THEN need
        ELSE 0 - 1

\* after the first number, which ends at atom e1: \s*x\s*(\d+)\s*\$?(num); the
\* quantity keeps all digits when a number follows, else it yields its last
\* digit to the final number
QtyTotalTail(ts, e1) ==
    LET q == ts[e1 + 2]
        n2 == DollarNumAt(ts, e1 + 3)
    IN  IF ~(e1 + 2 <= Len(ts) /\ IsX(ts[e1 + 1]) /\ IsD(q)) THEN NoMatch
        ELSE IF n2 # 0 THEN << << << Glue(q) >>, NumText(ts, n2, 0) >> >>
        ELSE IF q.n >= 2
        THEN << << << Glue(DgHead(q, q.n - 1)) >>, NumText(ts, e1 + 2, q.n - 1) >> >>
        ELSE NoMatch

\* (desc)\s*\$?(num)\s*x\s*(\d+)\s*\$?(num) with the first number at atom m
Pattern5At(ts, a, m) ==
    LET o == CutAt(ts, a, m, 1)
        n1 == DollarNumAt(ts, m)
        rest == QtyTotalTail(ts, NumEnd(ts, n1))
    IN  IF n1 = 0 \/ o < 0 THEN NoMatch
        ELSE IF rest = NoMatch THEN NoMatch
        ELSE << << GroupText(ts, a, m, o), NumText(ts, n1, o) >> \o rest[1] >>

\* the two numbers \$?(num)\s*\$?(num) from atom i: the first number keeps all
\* its characters when a number follows, else it yields its last digit
TwoNumbers(ts, i) ==
    LET n1 == DollarNumAt(ts, i)
        e1 == NumEnd(ts, n1)
        n2 == DollarNumAt(ts, e1 + 1)
        d == ts[n1]
        f == ts[e1]
    IN  IF n1 = 0 THEN NoMatch
        ELSE IF n2 # 0 THEN << << NumText(ts, n1, 0), NumText(ts, n2, 0) >> >>
        ELSE IF e1 = n1 + 2
        THEN << << << Glue(d), ts[n1 + 1] >>
                     \o (IF f.n >= 2 THEN << DgHead(f, f.n - 1) >> ELSE << >>),
                   << DgTail(f, f.n - 1) >> >> >>
        ELSE IF d.n >= 2
        THEN << << << Glue(DgHead(d, d.n - 1)) >>,
                   << DgTail(d, d.n - 1) >> \o Slice(ts, n1 + 1, e1) >> >>
        ELSE NoMatch

\* (desc)\s*(\d+)\s*x\s*\$?(num)\s*\$?(num) with the quantity at atom m
Pattern6At(ts, a, m) ==
    LET o == CutAt(ts, a, m, 1)
        rest == TwoNumbers(ts, m + 2)
    IN  IF ~(m + 2 <= Len(ts) /\ IsD(ts[m]) /\ IsX(ts[m + 1])) \/ o < 0 THEN NoMatch
        ELSE IF rest = NoMatch THEN NoMatch
        ELSE << << GroupText(ts, a, m, o), NumText(ts, m, o) >> \o rest[1] >>

\* (desc{3,})\s*\$?(num) with the number at atom m
Pattern12At(ts, a, m) ==
    LET o == CutAt(ts, a, m, 3)
        n1 == DollarNumAt(ts, m)
    IN  IF n1 = 0 \/ o < 0 THEN NoMatch
        ELSE << << GroupText(ts, a, m, o), NumText(ts, n1, o) >> >>

\* the leftmost run in which the pattern matches, with the shortest group
CutSearch(ts, At(_, _, _)) ==
    LET hits(a) == { m \in a..(RunEnd(ts, a) + 1) : m <= Len(ts) /\ At(ts, a, m) # NoMatch }
        ok == { a \in Runs(ts) : hits(a) # {} }
    IN  IF ok = {} THEN NoMatch
        ELSE LET a == Least(ok) IN At(ts, a, Least(hits(a)))

Pattern5(ts) == CutSearch(ts, Pattern5At)

Pattern6(ts) == CutSearch(ts, Pattern6At)

Pattern12(ts) == CutSearch(ts, Pattern12At)

\* after the group, which ends with atom j: \s+(\d+)\s+\$?(num)
QtyPriceSpaced(ts, j) ==
    LET n1 == DollarNumAt(ts, j + 2)
    IN  IF /\ j + 2 <= Len(ts) /\ IsD(ts[j + 1]) /\ ts[j + 1].sp /\ ts[j + 2].sp /\ n1 # 0
        THEN << << << Glue(ts[j + 1]) >>, NumText(ts, n1, 0) >> >>
        ELSE NoMatch

\* after the group, which ends with atom j: \s+\$?(num)\s*$
LastNumber(ts, j) ==
    LET n1 == DollarNumAt(ts, j + 1)
    IN  IF j + 1 <= Len(ts) /\ ts[j + 1].sp /\ n1 # 0 /\ NumEnd(ts, n1) = Len(ts)
        THEN << << NumText(ts, n1, 0) >> >>
        ELSE NoMatch

\* the group starts at atom a and ends with an atom of the same run
GroupSearchFrom(ts, a, Rest(_, _)) ==
    LET hits == { j \in a..RunEnd(ts, a) : Rest(ts, j) # NoMatch }
    IN  IF hits = {} THEN NoMatch
        ELSE << << GroupText(ts, a, Least(hits) + 1, 0) >> \o Rest(ts, Least(hits))[1] >>

GroupSearch(ts, Rest(_, _)) ==
    LET ok == { a \in Runs(ts) : GroupSearchFrom(ts, a, Rest) # NoMatch }
    IN  IF ok = {} THEN NoMatch ELSE GroupSearchFrom(ts, Least(ok), Rest)

\* (desc)\s+(\d+)\s+\$?(num)
Pattern8(ts) == GroupSearch(ts, QtyPriceSpaced)

\* (desc)\s+\$?(num)\s*$
Pattern11(ts) == GroupSearch(ts, LastNumber)

\* the atoms at which a token of [A-Z0-9\-]+ starts, and the token's last atom
TokenStarts(ts) ==
    { c \in 1..Len(ts) : DK(ts[c]) /\ (c = 1 \/ ts[c].sp \/ ~DK(ts[c - 1])) }

TokenEnd(ts, c) ==
    LET stops == { b \in (c + 1)..Len(ts) : ~DK(ts[b]) \/ ts[b].sp }
    IN  IF stops = {} THEN Len(ts) ELSE Least(stops) - 1

\* ([A-Z0-9\-]+)\s+(desc)\s+(\d+)\s+\$?(num)
Pattern7(ts) ==
    LET from(c) == IF TokenEnd(ts, c) + 1 <= Len(ts) /\ ts[TokenEnd(ts, c) + 1].sp
                   THEN GroupSearchFrom(ts, TokenEnd(ts, c) + 1, QtyPriceSpaced)
                   ELSE NoMatch
        ok == { c \in TokenStarts(ts) : from(c) # NoMatch }
    IN  IF ok = {} THEN NoMatch
        ELSE LET c == Least(ok)
             IN  << << Slice(ts, c, TokenEnd(ts, c)) >> \o from(c)[1] >>

\* (desc)\s*:\s*(\d+)\s*@\s*\$?(num)
Pattern10(ts) ==
    LET at(a) == LET j == RunEnd(ts, a) + 1
                     n1 == DollarNumAt(ts, j + 3)
                 IN  IF /\ j + 3 <= Len(ts) /\ IsP(ts[j], ":") /\ IsD(ts[j + 1])
                        /\ IsP(ts[j + 2], "@") /\ n1 # 0
                     THEN << << GroupText(ts, a, j, 0), << Glue(ts[j + 1]) >>,
                                NumText(ts, n1, 0) >> >>
                     ELSE NoMatch
        ok == { a \in Runs(ts) : at(a) # NoMatch }
    IN  IF ok = {} THEN NoMatch ELSE at(Least(ok))

\* re.search(item_patterns[k - 1], line_clean, re.IGNORECASE)
PatternMatch(ts, k) ==
    CASE k = 1 -> Pattern1(ts)
      [] k = 2 -> Pattern2(ts)
      [] k = 3 -> Pattern3(ts)
      [] k = 4 -> Pattern4(ts)
      [] k = 5 -> Pattern5(ts)
      [] k = 6 -> Pattern6(ts)
      [] k = 7 -> Pattern7(ts)
      [] k = 8 -> Pattern8(ts)
      [] k = 9 -> Pattern9(ts)
      [] k = 10 -> Pattern10(ts)
      [] k = 11 -> Pattern11(ts)
      [] k = 12 -> Pattern12(ts)

-----------------------------------------------------------------------------
(* _extract_items: what a match becomes, the pattern loop, the strategies. *)

\* 'Item:' in line_clean
HasItemMark(ts) == \E i \in 1..Len(ts) : ItemMarkAt(ts, i)

PlainItem(sku, description, quantity, unit_price, total) ==
    ItemDict(sku, description, quantity, 1, unit_price, total, NoCorrection)

\* The body of the try block for the groups g of a match: status "error" is a
\* ValueError of int() or float(), "invalid" a refusal by _validate_item_values.
ParseError == [status |-> "error", item |-> << >>]

\* lines 456-472: the values are validated, the item is appended
ValidatedItem(sku, description, quantity, unit_price, total) ==
    IF ~ValidateItemValues(quantity, unit_price, description)
    THEN [status |-> "invalid", item |-> << >>]
    ELSE [status |-> "ok",
          item |-> << PlainItem(sku, description, quantity, unit_price, total) >>]

\* the total of an item without a stated total
Priced(sku, description, quantity, unit_price) ==
    ValidatedItem(sku, description, quantity, unit_price, quantity * unit_price)

MatchItem(g, hasItem) ==
    IF Len(g) = 4 /\ hasItem
    THEN IF ~(IsFloatText(Strip(g[2])) /\ IsIntText(g[3]) /\ IsFloatText(g[4])) THEN ParseError
         ELSE ValidatedItem(ItemSku(1), Strip(g[1]), IntOf(g[3]), FloatCents(Strip(g[2])),
                            FloatCents(g[4]))
    ELSE IF Len(g) = 4
    THEN IF ~(IsIntText(g[3]) /\ IsFloatText(g[4])) THEN ParseError
         ELSE Priced(RawSku(Strip(g[1])), Strip(g[2]), IntOf(g[3]), FloatCents(g[4]))
    ELSE IF Len(g) = 3
    THEN IF ~(IsIntText(g[2]) /\ IsFloatText(g[3])) THEN ParseError
         ELSE Priced(ItemSku(1), Strip(g[1]), IntOf(g[2]), FloatCents(g[3]))
    ELSE IF ~IsFloatText(g[2]) THEN ParseError
         ELSE Priced(ItemSku(1), Strip(g[1]), 1, FloatCents(g[2]))

PatternCount == 12

\* what pattern k yields on the line: "none" when it does not match
MatchResult(m, hasItem) ==
    IF m = NoMatch THEN [status |-> "none", item |-> << >>] ELSE MatchItem(m[1], hasItem)

PatternResult(ts, k) == MatchResult(PatternMatch(ts, k), HasItemMark(ts))

PatternSkipWords ==
    { << "extract" >>, << "look", "for" >>, << "choose" >>, << "recommendation" >>,
      << "unitprice" >>, << "vendor" >>, << "supplier" >>, << "quote" >>, << "total" >>,
      << "subtotal" >> }

\* the pattern loop over the one line of the text: the first pattern that
\* matches, parses and validates makes the item
FirstOk(results) ==
    IF \A k \in 1..Len(results) : results[k].status # "ok" THEN << >>
    ELSE results[Least({ k \in 1..Len(results) : results[k].status = "ok" })].item

PatternItems(ts) ==
    IF ts = << >> \/ ContainsAny(ts, PatternSkipWords) THEN << >>
    ELSE IF TextLen(ts) < 5 \/ TextLen(ts) > 200 THEN << >>
    ELSE FirstOk([ k \in 1..PatternCount |-> PatternResult(ts, k) ])

\* text.lower() of a description
LowerText(d) == [ i \in 1..Len(d) |-> IF d[i].k = "w" THEN [d[i] EXCEPT !.s = Lower(d[i].s)] ELSE d[i] ]

\* the key is the description alone
DedupKeyWithoutPrice(it) == << LowerText(Strip(it.description)), 0 >>

\* (description.strip().lower(), round(unitPrice, 2))
DedupKey(it) == << LowerText(Strip(it.description)), it.unitPrice >>

\* _deduplicate_items: one item per key, in the order of first appearance;
\* quantity and total are summed, the other fields are the last item's
DeduplicateItems(its) ==
    LET firsts == { i \in 1..Len(its) : \A j \in 1..(i - 1) : DedupKey(its[j]) # DedupKey(its[i]) }
        group(i) == { j \in 1..Len(its) : DedupKey(its[j]) = DedupKey(its[i]) }
        RECURSIVE sumq(_, _)
        sumq(S, f) == IF S = {} THEN [num |-> 0, den |-> 1]
                      ELSE LET j == Least(S)
                               r == sumq(S \ {j}, f)
                           IN  IF f = "total" THEN [num |-> r.num + its[j].total, den |-> 1]
                               ELSE [num |-> r.num * its[j].qden + its[j].quantity * r.den,
                                     den |-> r.den * its[j].qden]
        last(i) == its[CHOOSE j \in group(i) : \A h \in group(i) : h <= j]
        merged(i) == [ last(i) EXCEPT !.quantity = sumq(group(i), "quantity").num,
                                      !.qden = sumq(group(i), "quantity").den,
                                      !.total = sumq(group(i), "total").num,
                                      !.correction_info = NoCorrection ]
        RECURSIVE build(_)
        build(i) == IF i > Len(its) THEN << >>
                    ELSE (IF i \in firsts THEN << merged(i) >> ELSE << >>) \o build(i + 1)
    IN  build(1)

\* the patterns are tried before the intelligent extraction
FirstNonEmptyPatternsFirst(intelligent, patterns) ==
    IF patterns # << >> THEN [items |-> patterns, strategy |-> "pattern"]
    ELSE IF intelligent # << >> THEN [items |-> intelligent, strategy |-> "intelligent"]
    ELSE [items |-> DeduplicateItems(intelligent), strategy |-> "none"]

\* The result of _extract_items and the strategy that made it.
\* lines 373-378 and 474-492: the intelligent extraction, then the patterns, then
\* the intelligent extraction once more (it is a function of the text: the
\* second call returns what the first returned), then the list without duplicates
FirstNonEmpty(intelligent, patterns) ==
    IF intelligent # << >> THEN [items |-> intelligent, strategy |-> "intelligent"]
    ELSE IF patterns # << >> THEN [items |-> patterns, strategy |-> "pattern"]
    ELSE [items |-> DeduplicateItems(intelligent), strategy |-> "none"]

ExtractItems(ts, seed) == FirstNonEmpty(IntelligentItemExtraction(ts, seed), PatternItems(ts))

-----------------------------------------------------------------------------
(* The documents of the model: a context (the lines before and after the   *)
(* item lines) and up to MaxItemLines item lines.                          *)

\* 5.00 as atoms; n is the number of digits before the full stop
Price(whole, n, cents) == << Dg(whole, n), Glue(Pn(".")), Glue(Dg(cents, 2)) >>

\* $5.00
Dollars(whole, n, cents) == << Pn("$") >> \o Strip(Price(whole, n, cents))

ItemLabel == << Wd("Item"), Glue(Pn(":")) >>

\* "Item: <desc> - $<price> x <qty> = $<total>"
XLine(desc, price, qty, total) ==
    ItemLabel \o desc \o << Pn("-") >> \o price \o << Wd("x"), qty, Pn("=") >> \o total

LineIds == { "consistent", "double", "small", "zero", "numeric", "pair", "euro", "bare",
             "office", "desk" }

LineText(id) ==
    CASE id = "consistent" ->   \* Item: Chair - $5.00 x 10 = $50.00
           XLine(<< Wd("Chair") >>, Dollars(5, 1, 0), Dg(10, 2), Dollars(50, 2, 0))
      [] id = "double" ->       \* Item: Chair - $5.00 x 10 = $100.00
           XLine(<< Wd("Chair") >>, Dollars(5, 1, 0), Dg(10, 2), Dollars(100, 3, 0))
      [] id = "small" ->        \* Item: Chair - $5.00 x 10 = $52.00
           XLine(<< Wd("Chair") >>, Dollars(5, 1, 0), Dg(10, 2), Dollars(52, 2, 0))
      [] id = "zero" ->         \* Item: Lamp - $45.00 x 0 = $0.00
           XLine(<< Wd("Lamp") >>, Dollars(45, 2, 0), Dg(0, 1), Dollars(0, 1, 0))
      [] id = "numeric" ->      \* Item: 123 $5.00 x 2 = $10.00
           ItemLabel \o << Dg(123, 3) >> \o Dollars(5, 1, 0)
             \o << Wd("x"), Dg(2, 1), Pn("=") >> \o Dollars(10, 2, 0)
      [] id = "pair" ->         \* Item: Lamp - $4.00 $10.00
           ItemLabel \o << Wd("Lamp"), Pn("-") >> \o Dollars(4, 1, 0) \o Dollars(10, 2, 0)
      [] id = "euro" ->         \* Chair 10 100.00 EUR
           << Wd("Chair"), Dg(10, 2) >> \o Price(100, 3, 0) \o << Wd("EUR") >>
      [] id = "bare" ->         \* Item: Chair - 5.00 x 10 = 100.00
           XLine(<< Wd("Chair") >>, Price(5, 1, 0), Dg(10, 2), Price(100, 3, 0))
      [] id = "office" ->       \* Item: Office Chair - $125.00 x 50 = $6250.00
           XLine(<< Wd("Office"), Wd("Chair") >>, Dollars(125, 3, 0), Dg(50, 2),
                 Dollars(6250, 4, 0))
      [] id = "desk" ->         \* Item: Desk Lamp - $45.00 x 100 = $4500.00
           XLine(<< Wd("Desk"), Wd("Lamp") >>, Dollars(45, 2, 0), Dg(100, 3),
                 Dollars(4500, 4, 0))
      [] id = "cents" ->        \* Chair 7 0.05 EUR
           << Wd("Chair"), Dg(7, 1) >> \o Price(0, 1, 5) \o << Wd("EUR") >>

ContextIds == { "plain", "long", "terms", "invoice", "paidinvoice", "instruction",
                "quote", "longterms" }

InvoiceHeader ==
    << << Wd("Invoice"), Wd("Number"), Glue(Pn(":")) >>,
       << Wd("Bill"), Wd("To"), Glue(Pn(":")) >> >>

\* the lines before the item lines
ContextBefore(c) ==
    CASE c = "long" -> << << Fl(Filler1), Fl(Filler2) >> >>
      [] c = "longterms" -> << << Fl(Filler1), Fl(Filler2) >> >>
      [] c = "invoice" -> InvoiceHeader
      [] c = "paidinvoice" -> InvoiceHeader \o << << Wd("Paid") >> >>
      [] c = "instruction" ->
           << << Wd("Extract") >> >> \o InvoiceHeader
             \o << << Wd("from"), Wd("the"), Wd("document") >> >>
      [] c = "quote" -> << << Wd("Quote") >> >>
      [] OTHER -> << >>

\* the lines after the item lines
ContextAfter(c) ==
    IF c \in { "terms", "longterms" }
    THEN << << Wd("Payment"), Glue(Pn(":")), Wd("Net"), Dg(30, 2) >> >>
    ELSE << >>

\* the sequences over S of length at most n
RECURSIVE SeqsUpTo(_, _)
SeqsUpTo(S, n) ==
    IF n = 0 THEN { << >> }
    ELSE LET shorter == SeqsUpTo(S, n - 1)
         IN  shorter \cup { Append(q, x) : q \in shorter, x \in S }

\* text_content is None
NoneDocument == [ctx |-> "None", lines |-> << >>]

\* 'Chair 7 0.05 EUR': a price in euros of a few cents
SmallEuroDocument == [ctx |-> "plain", lines |-> << "cents" >>]

Documents ==
    { [ctx |-> c, lines |-> ls] : c \in ContextIds, ls \in SeqsUpTo(LineIds, MaxItemLines) }
      \cup { SmallEuroDocument }

\* the lines of the document
DocLines(doc) ==
    ContextBefore(doc.ctx) \o [ i \in 1..Len(doc.lines) |-> LineText(doc.lines[i]) ]
      \o ContextAfter(doc.ctx)

-----------------------------------------------------------------------------
(* _extract_vendor_name.  A vendor name is a text and a flag: truncated    *)
(* stands for vendor_name[:50] + "...".                                    *)

\* a fixed string, as one atom
Phrase(str) == << Glue(Fl(str)) >>

VendorName(ts, truncated) == [text |-> ts, truncated |-> truncated]

UnknownVendor == VendorName(Phrase("Unknown Vendor"), FALSE)

\* _extract_vendor_from_filename for the file names of the model: the name
\* without extension is lower-cased, 'vendor_([a-z_]+)' captures "a_quote", which
\* title() and the removal of the word Quote turn into "A"; the words of a
\* longer capture are joined by blanks in the same way
\* a file name whose vendor part has 63 characters
LongVendorFile ==
    "vendor_international_business_machines_and_office_supplies_corporation_quote.pdf"

LongVendor == "International Business Machines And Office Supplies Corporation"

FilenameVendor(f) ==
    CASE f = "vendor_a_quote.pdf" -> "A"
      [] f = LongVendorFile -> LongVendor
      [] OTHER -> "Unknown"

\* the atom consists of characters of [A-Za-z0-9\s&.,\-]
VK(a) == a.k = "w" \/ a.k = "d" \/ a.k = "f" \/ (a.k = "p" /\ a.s \in { "&", ".", ",", "-" })

\* the first and last atom of the run of such atoms around atom j
VRunStart(ts, j) ==
    LET stops == { b \in 1..j : ~VK(ts[b]) }
    IN  IF stops = {} THEN 1 ELSE (CHOOSE b \in stops : \A c \in stops : c <= b) + 1

VRunEnd(ts, j) ==
    LET stops == { b \in j..Len(ts) : ~VK(ts[b]) }
    IN  IF stops = {} THEN Len(ts) ELSE Least(stops) - 1

CompanyWords == { "inc", "corp", "llc", "ltd", "company", "pvt", "co" }

TradeWords == { "supplies", "office", "solutions", "systems" }

\* ([A-Za-z0-9\s&.,\-]+)\s+(?:w1|w2|...): the greedy group before the last such
\* word of the leftmost run that holds one; << >> or << candidate >>
GroupBefore(ts, hits, a) ==
    << Strip(Slice(ts, a, Greatest({ j \in hits : VRunStart(ts, j - 1) = a }) - 1)) >>

LeftmostGroup(ts, hits) ==
    IF hits = {} THEN << >>
    ELSE GroupBefore(ts, hits, Least({ VRunStart(ts, j - 1) : j \in hits }))

BeforeWord(ts, words) ==
    LeftmostGroup(ts, { j \in 2..Len(ts) : /\ ts[j].k = "w" /\ ts[j].sp
                                           /\ Prefixes(ts[j].s) \cap words # {}
                                           /\ VK(ts[j - 1]) })

\* Quote\s+([A-Za-z0-9\s&.,\-]+)
AfterQuote(ts) ==
    LET hits == { j \in 1..(Len(ts) - 1) : /\ ts[j].k = "w" /\ "quote" \in Suffixes(ts[j].s)
                                           /\ ts[j + 1].sp /\ VK(ts[j + 1]) }
    IN  IF hits = {} THEN << >>
        ELSE << Strip(Slice(ts, Least(hits) + 1, VRunEnd(ts, Least(hits) + 1))) >>

\* ^([A-Za-z0-9\s&.,\-]+)\s*$
WholeText(ts) == IF ts # << >> /\ \A i \in 1..Len(ts) : VK(ts[i]) THEN << ts >> ELSE << >>

\* ^([A-Za-z0-9\s&.,\-]+)\s+Date
BeforeDate(ts) ==
    LET hits == { j \in 2..Len(ts) : /\ ts[j].k = "w" /\ ts[j].sp /\ "date" \in Prefixes(ts[j].s)
                                     /\ \A i \in 1..(j - 1) : VK(ts[i]) }
    IN  IF hits = {} THEN << >>
        ELSE << Strip(Slice(ts, 1, (CHOOSE h \in hits : \A g \in hits : g <= h) - 1)) >>

\* vendor_patterns, in order: what each captures
VendorCandidates(ts) ==
    << BeforeWord(ts, { "quote" }), AfterQuote(ts), BeforeWord(ts, CompanyWords),
       BeforeWord(ts, TradeWords), WholeText(ts), BeforeDate(ts) >>

VendorSkipWords ==
    { << "extract" >>, << "look", "for" >>, << "choose" >>, << "recommendation" >>,
      << "unitprice" >>, << "vendor" >>, << "supplier" >>, << "quote" >>, << "total" >>,
      << "date" >>, << "time" >>, << "payment" >>, << "warranty" >> }

\* _is_valid_vendor_name
IsValidVendorName(name) ==
    /\ name # << >> /\ DescLen(name) >= 2
    /\ ~IsDigitString(name)
    /\ ~(\A i \in 1..Len(name) : name[i].k = "w")
    /\ ~ContainsAny(name, VendorSkipWords)
    /\ DescLen(name) >= 3

\* lines 285-292: the patterns whose candidate is valid
ValidCandidates(cands) ==
    { k \in 1..Len(cands) : cands[k] # << >> /\ IsValidVendorName(cands[k][1]) }

\* lines 284-301: the first valid candidate, else the line if it is valid;
\* << >> stands for "Unknown Vendor"
FirstValid(cands, valid, ts) ==
    IF valid # {} THEN cands[Least(valid)][1]
    ELSE IF ts # << >> /\ TextLen(ts) > 3 /\ IsValidVendorName(ts) THEN ts
    ELSE << >>

VendorFromText(cands, ts) == FirstValid(cands, ValidCandidates(cands), ts)

\* lines 304-309
Truncated(name) ==
    IF name = << >> THEN UnknownVendor ELSE VendorName(name, DescLen(name) > 50)

ExtractVendorName(ts, fname) ==
    IF fname # "" /\ FilenameVendor(fname) # "Unknown"
    THEN VendorName(Phrase(FilenameVendor(fname)), FALSE)
    ELSE Truncated(VendorFromText(VendorCandidates(ts), ts))

-----------------------------------------------------------------------------
(* _extract_terms.  A term is a text.                                      *)

NetThirty == << Glue(Wd("Net")), Dg(30, 2) >>

StandardWarranty == Phrase("Standard warranty")

NotApplicable == Phrase("N/A")

ManualReview == Phrase("Manual Review Required")

\* the payment term of a quote_data without the key (line 976)
ToBeDetermined == Phrase("TBD")

\* the atom consists of characters of [A-Za-z0-9\s]
TK(a) == a.k = "w" \/ a.k = "d"

\* the last atom of the run of such atoms that starts at a (a - 1 if there is none)
TermRunEnd(ts, a) ==
    LET stops == { b \in a..Len(ts) : ~TK(ts[b]) }
    IN  IF stops = {} THEN Len(ts) ELSE Least(stops) - 1

\* label[:\-]\s*([A-Za-z0-9\s]+): << >> or << group.strip() >>.  No document of
\* the model has prose after a labelled term, so a sentence ends the group here.
LabelledTerm(ts, label) ==
    LET hits == { i \in 1..(Len(ts) - 2) :
                    /\ ts[i].k = "w" /\ label \in Suffixes(ts[i].s)
                    /\ ts[i + 1].k = "p" /\ ~ts[i + 1].sp /\ ts[i + 1].s \in { ":", "-" }
                    /\ (TK(ts[i + 2]) \/ ts[i + 2].sp) }
    IN  IF hits = {} THEN << >>
        ELSE << Strip(Slice(ts, Least(hits) + 2, TermRunEnd(ts, Least(hits) + 2))) >>

\* net\s+(\d+)
NetDays(ts) ==
    LET hits == { i \in 1..(Len(ts) - 1) : /\ ts[i].k = "w" /\ "net" \in Suffixes(ts[i].s)
                                           /\ IsD(ts[i + 1]) /\ ts[i + 1].sp }
    IN  IF hits = {} THEN << >> ELSE << << Glue(ts[Least(hits) + 1]) >> >>

\* (\d+)\s+days
CountDays(ts) ==
    LET hits == { i \in 1..(Len(ts) - 1) : /\ IsD(ts[i]) /\ ts[i + 1].k = "w" /\ ts[i + 1].sp
                                           /\ "days" \in Prefixes(ts[i + 1].s) }
    IN  IF hits = {} THEN << >> ELSE << << Glue(ts[Least(hits)]) >> >>

\* (\d+)\s+year[s]?\s+warranty
WarrantyYears(ts) ==
    LET hits == { i \in 1..(Len(ts) - 2) :
                    /\ IsD(ts[i]) /\ ts[i + 1].k = "w" /\ ts[i + 1].sp
                    /\ Lower(ts[i + 1].s) \in { "year", "years" }
                    /\ ts[i + 2].k = "w" /\ ts[i + 2].sp /\ "warranty" \in Prefixes(ts[i + 2].s) }
    IN  IF hits = {} THEN << >> ELSE << << Glue(ts[Least(hits)]) >> >>

\* the group of the first pattern that matches, or the default
FirstTerm(matches, default) ==
    LET hits == { k \in 1..Len(matches) : matches[k] # << >> }
    IN  IF hits = {} THEN default ELSE matches[Least(hits)][1]

ExtractTerms(ts) ==
    [ payment |-> FirstTerm(<< LabelledTerm(ts, "payment"), NetDays(ts), CountDays(ts) >>,
                            NetThirty),
      warranty |-> FirstTerm(<< LabelledTerm(ts, "warranty"), WarrantyYears(ts) >>,
                             StandardWarranty) ]

-----------------------------------------------------------------------------
(* The JSON object of _analyze_quote_with_nlp.  A key that is absent is    *)
(* a default value here: analysis_note NoNote, major_corrections << >>     *)
(* (the key is written only for a non-empty list).                         *)

NoNote == [kind |-> "none", document_type |-> ""]

\* "This appears to be a {document_type}, not a vendor quote. Please upload ..."
DocumentTypeNote(document_type) == [kind |-> "not a vendor quote", document_type |-> document_type]

\* "No pricing information could be extracted. Please ensure this is ..."
NoPricingNote == [kind |-> "no pricing information", document_type |-> ""]

\* f"Document Type: {document_type.title()}"
DocumentTypeVendor(document_type) ==
    VendorName(Phrase(CASE document_type = "receipt" -> "Document Type: Receipt"
                        [] document_type = "invoice" -> "Document Type: Invoice"
                        [] OTHER -> "Document Type: Quote"), FALSE)

NotApplicableTerms == [payment |-> NotApplicable, warranty |-> NotApplicable]

NoResult ==
    [ vendorName |-> VendorName(<< >>, FALSE), items |-> << >>, terms |-> NotApplicableTerms,
      analysis_note |-> NoNote, major_corrections |-> << >> ]

\* lines 176-181
NonQuoteResult(document_type) ==
    [ NoResult EXCEPT !.vendorName = DocumentTypeVendor(document_type),
                      !.analysis_note = DocumentTypeNote(document_type) ]

\* lines 201-206
NoItemsResult(vendor_name) ==
    [ NoResult EXCEPT !.vendorName = vendor_name, !.analysis_note = NoPricingNote ]

\* lines 208-230: the correction_info of the items moves to major_corrections
MajorCorrections(its) ==
    LET RECURSIVE collect(_)
        collect(i) ==
            IF i > Len(its) THEN << >>
            ELSE (IF its[i].correction_info.major THEN << its[i].correction_info >> ELSE << >>)
                   \o collect(i + 1)
    IN  collect(1)

QuoteResult(vendor_name, its, terms) ==
    [ vendorName |-> vendor_name,
      items |-> [ i \in 1..Len(its) |-> [ its[i] EXCEPT !.correction_info = NoCorrection ] ],
      terms |-> terms, analysis_note |-> NoNote,
      major_corrections |-> MajorCorrections(its) ]

-----------------------------------------------------------------------------
(* _create_vendor_quote and _get_fallback_quote.  QuoteItem.quantity is an *)
(* int field: pydantic 1 truncates a float, pydantic 2 accepts only a      *)
(* float without fractional part, and the item that fails validation is    *)
(* skipped (lines 969-971).                                                *)

Coercions == { "truncate", "reject" }

IsFractional(it) == it.quantity % it.qden # 0

\* << >> when QuoteItem(...) raises, << the QuoteItem >> otherwise
QuoteItem(item_data, coercion) ==
    IF IsFractional(item_data) /\ coercion = "reject" THEN << >>
    ELSE << [ sku |-> item_data.sku, description |-> item_data.description,
              quantity |-> item_data.quantity \div item_data.qden,
              unitPrice |-> item_data.unitPrice, deliveryTime |-> item_data.deliveryTime,
              total |-> item_data.total ] >>

RECURSIVE QuoteItems(_, _)
QuoteItems(its, coercion) ==
    IF its = << >> THEN << >>
    ELSE QuoteItem(Head(its), coercion) \o QuoteItems(Tail(its), coercion)

\* major_corrections << >> is None
VendorQuote(vendor_name, its, terms, major_corrections) ==
    [ vendorName |-> vendor_name, items |-> its, terms |-> terms,
      major_corrections |-> major_corrections ]

CreateVendorQuote(quote_data, coercion) ==
    IF quote_data.analysis_note # NoNote
    THEN VendorQuote(quote_data.vendorName, << >>, quote_data.terms, << >>)
    ELSE VendorQuote(quote_data.vendorName, QuoteItems(quote_data.items, coercion),
                     quote_data.terms, quote_data.major_corrections)

ReviewRequired ==
    [ sku |-> [tag |-> "REVIEW_REQUIRED", n |-> 0, raw |-> << >>],
      description |-> Phrase("Please manually review the uploaded document"),
      quantity |-> 1, unitPrice |-> 0, deliveryTime |-> "TBD", total |-> 0 ]

GetFallbackQuote ==
    VendorQuote(VendorName(Phrase("Analysis Failed - Manual Review Required"), FALSE),
                << ReviewRequired >>,
                [payment |-> ManualReview, warranty |-> ManualReview], << >>)

NoQuote == VendorQuote(VendorName(<< >>, FALSE), << >>, NotApplicableTerms, << >>)

-----------------------------------------------------------------------------
(* MathValidator (backend/app/math_validator.py).  An issue is its type    *)
(* and the index of the item it is about (<< >> for an issue about the     *)
(* whole quote); a warning is its type.                                    *)

\* rounding_tolerance 0.01, in cents
RoundingTolerance == 1

\* thresholds["suspicious_unit_price"] 10000, in cents
SuspiciousUnitPrice == 1000000

\* thresholds["unusual_quantity"]
UnusualQuantity == 10000

\* thresholds["extreme_price_variation"]
ExtremePriceVariation == 100

Issue(type, index) == [type |-> type, item_index |-> index]

When(cond, x) == IF cond THEN << x >> ELSE << >>

\* _validate_item
ValidateItem(item, item_index) ==
    When(Abs(item.quantity * item.unitPrice - item.total) > RoundingTolerance,
         Issue("calculation_error", << item_index >>))
    \o When(item.unitPrice <= 0, Issue("invalid_price", << item_index >>))
    \o When(item.unitPrice > SuspiciousUnitPrice, Issue("suspicious_price", << item_index >>))
    \o When(item.quantity > UnusualQuantity, Issue("unusual_quantity", << item_index >>))
    \o When(item.quantity <= 0, Issue("invalid_quantity", << item_index >>))

\* normalized.startswith(prefix + " ") removes the prefix
DropPrefix(d, prefix) ==
    IF Len(d) >= 2 /\ d[1].k = "w" /\ Lower(d[1].s) = prefix /\ d[2].sp THEN Tail(d) ELSE d

\* the letters and blanks of a description, lower-cased (the words of the
\* descriptions of the model are separated by blanks)
RECURSIVE LowerWords(_)
LowerWords(d) ==
    IF d = << >> THEN << >>
    ELSE When(Head(d).k = "w", Lower(Head(d).s)) \o LowerWords(Tail(d))

\* _normalize_description
NormalizeDescription(description) ==
    LowerWords(DropPrefix(DropPrefix(DropPrefix(DropPrefix(DropPrefix(description,
        "item"), "product"), "part"), "sku"), "model"))

\* the positive unit prices of the items whose description has the same key as item i
GroupPrices(its, i) ==
    { j \in 1..Len(its) :
        /\ NormalizeDescription(its[j].description) = NormalizeDescription(its[i].description)
        /\ its[j].unitPrice > 0 }

GroupSize(its, i) ==
    Cardinality({ j \in 1..Len(its) :
        NormalizeDescription(its[j].description) = NormalizeDescription(its[i].description) })

\* max_price / min_price > 100 in a group of at least two items with at least
\* two positive prices
ExtremeVariation(its, i, priced) ==
    /\ GroupSize(its, i) >= 2
    /\ Cardinality(priced) >= 2
    /\ Greatest({ its[j].unitPrice : j \in priced })
         > ExtremePriceVariation * Least({ its[j].unitPrice : j \in priced })

\* _check_price_consistency: one issue for every group, in the order in which
\* the keys first occur
RECURSIVE CheckPriceConsistency(_, _)
CheckPriceConsistency(its, i) ==
    IF Len(its) < 2 \/ i > Len(its) THEN << >>
    ELSE When(/\ \A j \in 1..(i - 1) : NormalizeDescription(its[j].description)
                                         # NormalizeDescription(its[i].description)
              /\ ExtremeVariation(its, i, GroupPrices(its, i)),
              Issue("price_inconsistency", << >>))
         \o CheckPriceConsistency(its, i + 1)

\* the issues of the items from item i on; item_index counts from 0
RECURSIVE ItemIssues(_, _)
ItemIssues(its, i) ==
    IF i > Len(its) THEN << >>
    ELSE ValidateItem(its[i], i - 1) \o ItemIssues(its, i + 1)

RECURSIVE TotalMismatches(_, _)
TotalMismatches(its, i) ==
    IF i > Len(its) THEN << >>
    ELSE When(its[i].total # its[i].quantity * its[i].unitPrice,
              Issue("item_total_mismatch", << i - 1 >>))
         \o TotalMismatches(its, i + 1)

\* _validate_quote_totals
ValidateQuoteTotals(vendor_quote) ==
    IF vendor_quote.items = << >> THEN << >>
    ELSE TotalMismatches(vendor_quote.items, 1) \o CheckPriceConsistency(vendor_quote.items, 1)

\* _check_bulk_pricing_patterns: discount_percentage > 0.50
RECURSIVE CheckBulkPricingPatterns(_)
CheckBulkPricingPatterns(its) ==
    IF its = << >> THEN << >>
    ELSE When(/\ Head(its).quantity > 1 /\ Head(its).unitPrice > 0
              /\ Abs(Head(its).quantity * Head(its).unitPrice - Head(its).total)
                   > RoundingTolerance
              /\ 200 * (Head(its).quantity * Head(its).unitPrice - Head(its).total)
                   > Head(its).quantity * Head(its).unitPrice,
              "large_bulk_discount")
         \o CheckBulkPricingPatterns(Tail(its))

\* the positive unit prices, in the order of the items
RECURSIVE PositivePrices(_)
PositivePrices(its) ==
    IF its = << >> THEN << >>
    ELSE When(Head(its).unitPrice > 0, Head(its).unitPrice) \o PositivePrices(Tail(its))

Escalation(prices) ==
    When(Len(prices) >= 3 /\ \A i \in 2..Len(prices) : prices[i] > prices[i - 1],
         "price_escalation")

\* _check_pricing_trends
CheckPricingTrends(its) == IF Len(its) < 3 THEN << >> ELSE Escalation(PositivePrices(its))

\* _generate_warnings
GenerateWarnings(vendor_quote) ==
    IF vendor_quote.items = << >> THEN << >>
    ELSE CheckBulkPricingPatterns(vendor_quote.items) \o CheckPricingTrends(vendor_quote.items)

\* _calculate_validation_score
CalculateValidationScore(vendor_quote, total_issues) ==
    IF vendor_quote.items = << >> THEN 0
    ELSE IF total_issues = 0 THEN 100
    ELSE Greatest({ 20, 100 - Least({ total_issues * 10, 80 }) })

\* lines 45-52
ValidationStatus(total_issues) ==
    IF total_issues = 0 THEN "valid"
    ELSE IF total_issues <= 2 THEN "minor_issues"
    ELSE IF total_issues <= 5 THEN "moderate_issues"
    ELSE "major_issues"

ValidationReport(vendor_quote, issues, warnings) ==
    [ kind |-> "validation",
      status |-> ValidationStatus(Len(issues)),
      validation_score |-> CalculateValidationScore(vendor_quote, Len(issues)),
      total_issues |-> Len(issues), total_warnings |-> Len(warnings),
      issues |-> issues, warnings |-> warnings ]

\* validate_quote
ValidateQuote(vendor_quote) ==
    ValidationReport(vendor_quote, ItemIssues(vendor_quote.items, 1) \o ValidateQuoteTotals(vendor_quote),
                     GenerateWarnings(vendor_quote))

-----------------------------------------------------------------------------
(* ObfuscationDetector (backend/app/obfuscation_detector.py).  A core      *)
(* pattern word1\s+word2... is the sequence of its words; a learned        *)
(* pattern is the string that learn_new_pattern was given.                 *)

HiddenFees ==
    << << "handling", "fee" >>, << "processing", "charge" >>, << "administrative", "fee" >>,
       << "service", "charge" >>, << "convenience", "fee" >>, << "transaction", "fee" >>,
       << "setup", "fee" >>, << "activation", "fee" >>, << "restocking", "fee" >>,
       << "cancellation", "fee" >>, << "management", "fee" >>, << "maintenance", "fee" >>,
       << "support", "fee" >>, << "licensing", "fee" >>, << "subscription", "fee" >> >>

BundledPricing ==
    << << "package", "deal" >>, << "bundle", "price" >>, << "all", "inclusive" >>,
       << "comprehensive", "pricing" >>, << "total", "solution" >>,
       << "complete", "package" >>, << "suite", "pricing" >>, << "enterprise", "package" >> >>

VolumeDiscounts ==
    << << "tier", "pricing" >>, << "volume", "discount" >>, << "quantity", "break" >>,
       << "bulk", "pricing" >>, << "scale", "pricing" >>, << "threshold", "pricing" >> >>

ConditionalPricing ==
    << << "subject", "to" >>, << "depending", "on" >>, << "may", "vary" >>,
       << "estimated", "price" >>, << "approximate", "cost" >>, << "plus", "applicable" >>,
       << "additional", "charges", "may", "apply" >>,
       << "prices", "subject", "to", "change" >>, << "market", "conditions" >>,
       << "availability", "may", "affect", "pricing" >> >>

ComplexStructures ==
    << << "base", "price", "plus" >>, << "core", "pricing", "plus" >>,
       << "minimum", "order", "value" >>, << "subscription", "model" >>,
       << "recurring", "charges" >>, << "monthly", "fee" >>, << "annual", "maintenance" >>,
       << "per", "user", "pricing" >>, << "usage", "based", "pricing" >> >>

\* obfuscation_patterns
ObfuscationPatterns ==
    [ hidden_fees |-> HiddenFees, bundled_pricing |-> BundledPricing,
      volume_discounts |-> VolumeDiscounts, conditional_pricing |-> ConditionalPricing,
      complex_structures |-> ComplexStructures ]

\* the keys of the store of learned patterns
LearnedCategories ==
    { "hidden_fees", "bundled_pricing", "conditional_pricing", "complex_structures" }

\* the store of a detector that found no file
DefaultStore == [ c \in LearnedCategories |-> << >> ]

\* confidence_thresholds["medium_confidence"] 0.70, in hundredths
MediumConfidence == 70

\* the learned patterns of the model: a phrase and an unbalanced parenthesis,
\* which re.compile rejects
RushFee == "rush fee"

OpenParenthesis == "("

\* re.search(pattern, ...) raises re.error
IsInvalidRegex(pattern) == pattern = OpenParenthesis

\* the words of a learned pattern
PatternWords(pattern) == IF pattern = RushFee THEN << "rush", "fee" >> ELSE << >>

\* the segments of len(pattern_words) words of the texts of the model whose
\* SequenceMatcher ratio with the pattern is at least 0.8: "rushed fee" has
\* 16/18 with "rush fee"
SimilarSegments(pattern) ==
    IF pattern = RushFee THEN { << "rushed", "fee" >> } ELSE {}

\* the words i..i+n-1 of text_lower.split() are the words of seg
SegmentAt(ts, i, seg) ==
    /\ i + Len(seg) - 1 <= Len(ts)
    /\ i = 1 \/ ts[i].sp
    /\ i + Len(seg) > Len(ts) \/ ts[i + Len(seg)].sp
    /\ \A j \in 1..Len(seg) : /\ ts[i + j - 1].k = "w" /\ Lower(ts[i + j - 1].s) = seg[j]
                              /\ (j > 1 => ts[i + j - 1].sp)

\* the matches of one learned pattern: itself when re.search finds it, else one
\* fuzzy match for every similar segment
PatternMatches(ts, pattern) ==
    IF PatternWords(pattern) # << >> /\ Contains(ts, PatternWords(pattern))
    THEN << [fuzzy |-> FALSE, pattern |-> pattern] >>
    ELSE [ k \in 1..Cardinality({ i \in 1..Len(ts) :
                                    \E seg \in SimilarSegments(pattern) : SegmentAt(ts, i, seg) })
             |-> [fuzzy |-> TRUE, pattern |-> pattern] ]

\* _fuzzy_match_patterns, for patterns that are regular expressions
RECURSIVE FuzzyMatchPatterns(_, _)
FuzzyMatchPatterns(ts, patterns) ==
    IF patterns = << >> THEN << >>
    ELSE PatternMatches(ts, Head(patterns)) \o FuzzyMatchPatterns(ts, Tail(patterns))

\* the patterns of the list that re.search finds in text_lower
RECURSIVE CoreMatches(_, _)
CoreMatches(ts, patterns) ==
    IF patterns = << >> THEN << >>
    ELSE When(Contains(ts, Head(patterns)), [fuzzy |-> FALSE, pattern |-> Head(patterns)])
         \o CoreMatches(ts, Tail(patterns))

\* _detect_adaptive_patterns, for a store of regular expressions
DetectAdaptivePatterns(ts, learned_patterns) ==
    [ c \in DOMAIN ObfuscationPatterns \cup DOMAIN learned_patterns |->
        (IF c \in DOMAIN ObfuscationPatterns THEN CoreMatches(ts, ObfuscationPatterns[c])
         ELSE << >>)
        \o (IF c \in DOMAIN learned_patterns THEN FuzzyMatchPatterns(ts, learned_patterns[c])
            ELSE << >>) ]

\* the product of two sets of word sequences
Then(A, B) == { a \o b : a \in A, b \in B }

Words(S) == { << w >> : w \in S }

CurrencyWords == { "usd", "dollar", "dollars", "euro", "euros" }

HedgeWords == { "approximately", "about", "around", "roughly", "estimated" }

\* (\d+\.?\d*)\s*(?:USD|dollars?|...)\s*(?:approximately|about|...): a number, a
\* currency word and a word that starts with a hedge word
AmountThenHedge(ts) ==
    \E i \in 1..(Len(ts) - 2) :
        /\ IsD(ts[i])
        /\ ts[i + 1].k = "w" /\ Lower(ts[i + 1].s) \in CurrencyWords
        /\ ts[i + 2].k = "w" /\ Prefixes(ts[i + 2].s) \cap HedgeWords # {}

\* (?:approximately|about|...)\s*(\d+\.?\d*)\s*(?:USD|dollars?|...)
HedgeThenAmount(ts) ==
    \E i \in 1..(Len(ts) - 2) :
        /\ ts[i].k = "w" /\ Suffixes(ts[i].s) \cap HedgeWords # {}
        /\ IsD(ts[i + 1])
        /\ ts[i + 2].k = "w" /\ Prefixes(ts[i + 2].s) \cap CurrencyWords # {}

\* (?:price|cost|fee)\s+(?:may|might|could)\s+(?:vary|change|differ)
PriceMayVary ==
    Then(Then(Words({ "price", "cost", "fee" }), Words({ "may", "might", "could" })),
         Words({ "vary", "change", "differ" }))

\* (?:final|total)\s+(?:price|cost)\s+(?:to\s+be|will\s+be)\s+(?:determined|calculated)
PriceToBeDetermined ==
    Then(Then(Then(Words({ "final", "total" }), Words({ "price", "cost" })),
              { << "to", "be" >>, << "will", "be" >> }),
         Words({ "determined", "calculated" }))

\* (?:terms|conditions|details|fine\s+print)\s+(?:apply|may\s+apply|subject\s+to)
TermsApply ==
    Then(Words({ "terms", "conditions", "details" }) \cup { << "fine", "print" >> },
         { << "apply" >>, << "may", "apply" >>, << "subject", "to" >> })

\* (?:see|refer\s+to)\s+(?:terms|conditions|schedule|appendix)
SeeTerms ==
    Then({ << "see" >>, << "refer", "to" >> },
         Words({ "terms", "conditions", "schedule", "appendix" }))

\* (?:additional|extra|other)\s+(?:charges|fees|costs)\s+(?:may|will)\s+(?:apply|incur)
ExtraChargesApply ==
    Then(Then(Then(Words({ "additional", "extra", "other" }),
                   Words({ "charges", "fees", "costs" })),
              Words({ "may", "will" })),
         Words({ "apply", "incur" }))

\* _detect_contextual_obfuscation: the types of the issues
DetectContextualObfuscation(ts) ==
    When(AmountThenHedge(ts), "contextual_uncertainty")
    \o When(HedgeThenAmount(ts), "contextual_uncertainty")
    \o When(ContainsAny(ts, PriceMayVary), "contextual_uncertainty")
    \o When(ContainsAny(ts, PriceToBeDetermined), "contextual_uncertainty")
    \o When(ContainsAny(ts, TermsApply), "fine_print_obfuscation")
    \o When(ContainsAny(ts, SeeTerms), "fine_print_obfuscation")
    \o When(ContainsAny(ts, ExtraChargesApply), "fine_print_obfuscation")

\* the literal 10000 of line 393, in cents
PlaceholderPrice == 1000000

\* a suspicious indicator occurs in deliveryTime.lower(); the delivery times of
\* the model are "7-10 days" and "TBD"
HasSuspiciousIndicator(deliveryTime) == deliveryTime = "TBD"

\* _detect_suspicious_items
RECURSIVE DetectSuspiciousItems(_)
DetectSuspiciousItems(its) ==
    IF its = << >> THEN << >>
    ELSE When(Head(its).unitPrice <= 0, "Zero or negative unit price")
         \o When(Head(its).unitPrice > PlaceholderPrice, "Extremely high unit price")
         \o When(Head(its).deliveryTime # "" /\ HasSuspiciousIndicator(Head(its).deliveryTime),
                 "Suspicious delivery time")
         \o DetectSuspiciousItems(Tail(its))

\* lines 418-430: max_price / min_price > 100 over the positive unit prices
PriceVariation(prices) ==
    When(Len(prices) >= 2
           /\ Greatest({ prices[i] : i \in 1..Len(prices) })
                > 100 * Least({ prices[i] : i \in 1..Len(prices) }),
         "extreme_price_variation")

\* lines 432-445: discount_percentage > 50
RECURSIVE UnusualBulkDiscounts(_)
UnusualBulkDiscounts(its) ==
    IF its = << >> THEN << >>
    ELSE When(/\ Head(its).quantity > 1 /\ Head(its).unitPrice > 0
              /\ Abs(Head(its).quantity * Head(its).unitPrice - Head(its).total) > 1
              /\ 2 * (Head(its).quantity * Head(its).unitPrice - Head(its).total)
                   > Head(its).quantity * Head(its).unitPrice,
              "unusual_bulk_discount")
         \o UnusualBulkDiscounts(Tail(its))

\* _detect_pricing_inconsistencies
DetectPricingInconsistencies(its) ==
    IF Len(its) < 2 THEN << >>
    ELSE PriceVariation(PositivePrices(its)) \o UnusualBulkDiscounts(its)

\* the points added for an issue
RiskPoints(type) ==
    CASE type = "hidden_fees" -> 30
      [] type = "bundled_pricing" -> 20
      [] type = "conditional_pricing" -> 25
      [] type = "complex_pricing" -> 35
      [] type = "contextual_obfuscation" -> 20
      [] type = "suspicious_pricing" -> 40
      [] type = "pricing_inconsistencies" -> 15

RECURSIVE SumPoints(_)
SumPoints(issues) ==
    IF issues = << >> THEN 0 ELSE RiskPoints(Head(issues)) + SumPoints(Tail(issues))

\* RiskLevel with a score of 70 still medium
RiskLevelAbove(final_risk_score) ==
    IF final_risk_score > 70 THEN "high"
    ELSE IF final_risk_score >= 40 THEN "medium"
    ELSE "low"

\* lines 306-312
RiskLevel(final_risk_score) ==
    IF final_risk_score >= 70 THEN "high"
    ELSE IF final_risk_score >= 40 THEN "medium"
    ELSE "low"

\* lines 216-301: the types of the issues, in the order of the checks
DetectedIssues(adaptive_results, contextual_issues, suspicious_items, inconsistency_issues) ==
    When(adaptive_results["hidden_fees"] # << >>, "hidden_fees")
    \o When(adaptive_results["bundled_pricing"] # << >>, "bundled_pricing")
    \o When(adaptive_results["conditional_pricing"] # << >>, "conditional_pricing")
    \o When(adaptive_results["complex_structures"] # << >>, "complex_pricing")
    \o When(contextual_issues # << >>, "contextual_obfuscation")
    \o When(suspicious_items # << >>, "suspicious_pricing")
    \o When(inconsistency_issues # << >>, "pricing_inconsistencies")

ObfuscationReport(issues) ==
    [ kind |-> "obfuscation",
      risk_level |-> RiskLevel(Least({ 100, SumPoints(issues) })),
      risk_score |-> Least({ 100, SumPoints(issues) }),
      total_risk_factors |-> Len(issues),
      issues |-> issues ]

\* re.error leaves analyze_quote
Raised == [kind |-> "raised"]

\* no call has returned
NoReport == [kind |-> "none"]

\* analyze_quote: re.search of line 128 raises for a learned pattern that is
\* not a regular expression, and nothing between it and the caller catches
AnalyzeQuote(vendor_quote, ts, learned_patterns) ==
    IF \E c \in DOMAIN learned_patterns : \E i \in 1..Len(learned_patterns[c]) :
           IsInvalidRegex(learned_patterns[c][i])
    THEN Raised
    ELSE ObfuscationReport(
             DetectedIssues(DetectAdaptivePatterns(ts, learned_patterns),
                            DetectContextualObfuscation(ts),
                            DetectSuspiciousItems(vendor_quote.items),
                            DetectPricingInconsistencies(vendor_quote.items)))

-----------------------------------------------------------------------------
(* learned_obfuscation_patterns.json and the store of learned patterns.    *)
(* The file is absent, or it has a size and either holds a JSON object     *)
(* (the sequence of its key/value pairs) or is not well-formed JSON.       *)

\* the order of the keys of the default store (line 103)
CategoryOrder ==
    << "hidden_fees", "bundled_pricing", "conditional_pricing", "complex_structures" >>

\* len(pattern)
PatternLen(pattern) == IF pattern = RushFee THEN 8 ELSE 1

RECURSIVE SumPatternLen(_)
SumPatternLen(patterns) ==
    IF patterns = << >> THEN 0
    ELSE PatternLen(Head(patterns)) + 8 + SumPatternLen(Tail(patterns))

\* the number of characters json.dump(..., indent=2) writes for the default store
DefaultStoreSize == 105

\* the number of characters json.dump(..., indent=2) writes for a store: a list
\* that is not empty takes two more for its line breaks, and every pattern its
\* length, its quotes, its indentation and a separator
RECURSIVE ListsSize(_, _)
ListsSize(pairs, i) ==
    IF i > Len(pairs) THEN 0
    ELSE (IF pairs[i][2] = << >> THEN 0 ELSE 2 + SumPatternLen(pairs[i][2]))
         + ListsSize(pairs, i + 1)

\* json.dump of a store: its key/value pairs in the order of the keys
JsonDump(learned_patterns) ==
    [ i \in 1..Len(CategoryOrder) |->
        << CategoryOrder[i], learned_patterns[CategoryOrder[i]] >> ]

\* json.load of a JSON object
JsonLoad(pairs) ==
    [ c \in { pairs[i][1] : i \in 1..Len(pairs) } |->
        pairs[Greatest({ i \in 1..Len(pairs) : pairs[i][1] = c })][2] ]

AbsentFile == [exists |-> FALSE, json |-> FALSE, pairs |-> << >>, size |-> 0]

\* open(file, 'w') truncates the file
EmptyFile == [exists |-> TRUE, json |-> FALSE, pairs |-> << >>, size |-> 0]

WrittenFile(pairs) ==
    [exists |-> TRUE, json |-> TRUE, pairs |-> pairs, size |-> DefaultStoreSize + ListsSize(pairs, 1)]

\* the file after the characters of pairs were written from its start: what
\* another process wrote behind them stays in the file
Overwritten(file, written) ==
    IF written.size >= file.size THEN written
    ELSE [exists |-> TRUE, json |-> FALSE, pairs |-> << >>, size |-> file.size]

\* _load_learned_patterns: json.load raises for a file that is not well-formed,
\* and the except clause answers with the default store
LoadLearnedPatterns(file) ==
    IF file.exists /\ file.json THEN JsonLoad(file.pairs) ELSE DefaultStore

\* the pattern is appended without looking for it in the list
LearnedAgain(learned_patterns, category, pattern, confidence) ==
    IF category \in DOMAIN learned_patterns /\ confidence >= MediumConfidence
    THEN [ learned_patterns EXCEPT ![category] = Append(@, pattern) ]
    ELSE learned_patterns

\* the pattern is appended whatever the confidence of the feedback
LearnedAnyConfidence(learned_patterns, category, pattern, confidence) ==
    IF /\ category \in DOMAIN learned_patterns
       /\ \A i \in 1..Len(learned_patterns[category]) :
              learned_patterns[category][i] # pattern
    THEN [ learned_patterns EXCEPT ![category] = Append(@, pattern) ]
    ELSE learned_patterns

\* learn_new_pattern: the store after the call
Learned(learned_patterns, category, pattern, confidence) ==
    IF /\ category \in DOMAIN learned_patterns /\ confidence >= MediumConfidence
       /\ \A i \in 1..Len(learned_patterns[category]) :
              learned_patterns[category][i] # pattern
    THEN [ learned_patterns EXCEPT ![category] = Append(@, pattern) ]
    ELSE learned_patterns

\* the worker processes that share the file
Workers == { 1, 2 }

-----------------------------------------------------------------------------
(* The quotes and texts handed to the audits.                              *)

\* the largest number of items of a quote handed to validate_quote
MaxMathItems == 3

\* the largest number of items of a quote handed to the detector
MaxObfuscationItems == 2

\* the largest number of sentences of a text handed to the detector
MaxSentences == 3

AuditItem(description, quantity, unitPrice, total, deliveryTime) ==
    [ sku |-> ItemSku(1), description |-> description, quantity |-> quantity,
      unitPrice |-> unitPrice, deliveryTime |-> deliveryTime, total |-> total ]

\* Chair: 10 x 5.00 = 50.00
CleanItem == AuditItem(<< Glue(Wd("Chair")) >>, 10, 500, 5000, "7-10 days")

\* Chair: 10 x 5.00 = 50.01
CentOffItem == AuditItem(<< Glue(Wd("Chair")) >>, 10, 500, 5001, "7-10 days")

\* Chair: 10 x 5.00 = 45.00
DiscountedItem == AuditItem(<< Glue(Wd("Chair")) >>, 10, 500, 4500, "7-10 days")

\* Chair: 10 x 5.00 = 20.00
SteepDiscountItem == AuditItem(<< Glue(Wd("Chair")) >>, 10, 500, 2000, "7-10 days")

\* Chair: 10 x 5.00 = 50.00, delivery "TBD"
PendingItem == AuditItem(<< Glue(Wd("Chair")) >>, 10, 500, 5000, "TBD")

\* Lamp: 1 x 0.00 = 0.00
FreeItem == AuditItem(<< Glue(Wd("Lamp")) >>, 1, 0, 0, "7-10 days")

\* Lamp: 0 x 0.00 = 5.00
BrokenItem == AuditItem(<< Glue(Wd("Lamp")) >>, 0, 0, 500, "7-10 days")

\* Lamp: 1 x 20000.00 = 0.00
PlaceholderItem == AuditItem(<< Glue(Wd("Lamp")) >>, 1, 2000000, 0, "7-10 days")

\* Lamp: 20000 x 0.05 = 1000.00
BulkItem == AuditItem(<< Glue(Wd("Lamp")) >>, 20000, 5, 100000, "7-10 days")

\* Item Chair: 2 x 600.00 = 1200.00
PremiumItem == AuditItem(<< Glue(Wd("Item")), Wd("Chair") >>, 2, 60000, 120000, "7-10 days")

MathItems ==
    { CleanItem, CentOffItem, DiscountedItem, FreeItem, BrokenItem, PlaceholderItem,
      BulkItem, PremiumItem }

ObfuscationItems ==
    { CleanItem, SteepDiscountItem, PendingItem, FreeItem, PlaceholderItem, PremiumItem }

\* a VendorQuote with these items
AuditQuote(its) == VendorQuote(UnknownVendor, its, NotApplicableTerms, << >>)

MathQuotes == { AuditQuote(its) : its \in SeqsUpTo(MathItems, MaxMathItems) }

ObfuscationQuotes ==
    { AuditQuote(its) : its \in SeqsUpTo(ObfuscationItems, MaxObfuscationItems) }

Sentence(words) ==
    [ i \in 1..Len(words) |-> Wd(words[i]) ] \o << Glue(Pn(".")) >>

\* the sentences of the texts, in the order in which a text has them
Sentences ==
    << Sentence(<< "a", "handling", "fee", "applies" >>),
       Sentence(<< "a", "setup", "fee", "applies" >>),
       Sentence(<< "a", "service", "charge", "applies" >>),
       Sentence(<< "this", "is", "a", "package", "deal" >>),
       Sentence(<< "prices", "are", "subject", "to", "availability" >>),
       Sentence(<< "a", "monthly", "fee", "applies" >>),
       Sentence(<< "the", "final", "price", "will", "be", "determined" >>),
       Sentence(<< "a", "volume", "discount", "is", "available" >>),
       Sentence(<< "a", "rushed", "fee", "applies" >>) >>

\* the sentences with a phrase of the hidden fees
HiddenFeeSentences == { 1, 2, 3 }

\* raw_text with the sentences ids
RECURSIVE SentencesFrom(_, _)
SentencesFrom(ids, i) ==
    IF i > Len(Sentences) THEN << >>
    ELSE (IF i \in ids THEN Sentences[i] ELSE << >>) \o SentencesFrom(ids, i + 1)

AuditText(ids) == Strip(SentencesFrom(ids, 1))

ObfuscationTexts ==
    { ids \in SUBSET (1..Len(Sentences)) : Cardinality(ids) <= MaxSentences }

\* no worker runs, no file exists and no audit was called
AuditIdle ==
    /\ auditQuote = NoQuote
    /\ auditText = {}
    /\ report = NoReport
    /\ learned = [ w \in Workers |-> DefaultStore ]
    /\ patternFile = AbsentFile
    /\ worker = [ w \in Workers |-> "down" ]
    /\ accepted = {}

-----------------------------------------------------------------------------
(* analyze_quote as a state machine: one action per step of analyze_quote  *)
(* and _analyze_quote_with_nlp.                                            *)

Filenames == { "", "vendor_a_quote.pdf", LongVendorFile }

NoSeed == -1

Init ==
    /\ pc = "idle"
    /\ rawText = NoneDocument
    /\ filename = ""
    /\ text = << >>
    /\ docType = ""
    /\ vendorName = VendorName(<< >>, FALSE)
    /\ detectedCurrency = ""
    /\ extracted = << >>
    /\ items = << >>
    /\ strategy = ""
    /\ nlpResult = NoResult
    /\ quote = NoQuote
    /\ invoked = {}
    /\ hashSeed = NoSeed
    /\ intCoercion = "unknown"
    /\ run = 1
    /\ firstQuote = NoQuote
    /\ AuditIdle

\* the caller passes text_content and filename
Call ==
    /\ pc = "idle"
    /\ \E doc \in Documents \cup { NoneDocument }, fname \in Filenames :
         /\ rawText' = doc
         /\ filename' = fname
    /\ pc' = "analyze"
    /\ UNCHANGED << text, docType, vendorName, detectedCurrency, extracted, items, strategy,
                    nlpResult, quote, invoked, hashSeed, intCoercion, run, firstQuote >>
    /\ UNCHANGED auditVars

\* lines 46-53: len(text_content) raises TypeError for None, which the except
\* clause of line 61 catches
Analyze ==
    /\ pc = "analyze"
    /\ pc' = IF rawText = NoneDocument THEN "fallback" ELSE "clean"
    /\ UNCHANGED << rawText, filename, text, docType, vendorName, detectedCurrency, extracted,
                    items, strategy, nlpResult, quote, invoked, hashSeed, intCoercion, run,
                    firstQuote >>
    /\ UNCHANGED auditVars

\* line 171
Clean ==
    /\ pc = "clean"
    /\ text' = CleanQuoteText(DocLines(rawText))
    /\ invoked' = invoked \cup { "_clean_quote_text" }
    /\ pc' = "classify"
    /\ UNCHANGED << rawText, filename, docType, vendorName, detectedCurrency, extracted, items,
                    strategy, nlpResult, quote, hashSeed, intCoercion, run, firstQuote >>
    /\ UNCHANGED auditVars

\* Classify without the return of lines 176-181
ClassifyWithoutReturn ==
    /\ pc = "classify"
    /\ docType' = DetectDocumentType(text)
    /\ invoked' = invoked \cup { "_detect_document_type" }
    /\ pc' = "vendor"
    /\ UNCHANGED << rawText, filename, text, vendorName, detectedCurrency, extracted, items,
                    strategy, nlpResult, quote, hashSeed, intCoercion, run, firstQuote >>
    /\ UNCHANGED auditVars

\* lines 174-181
Classify ==
    /\ pc = "classify"
    /\ docType' = DetectDocumentType(text)
    /\ invoked' = invoked \cup { "_detect_document_type" }
    /\ IF docType' # "quote"
       THEN nlpResult' = NonQuoteResult(docType') /\ pc' = "create"
       ELSE nlpResult' = nlpResult /\ pc' = "vendor"
    /\ UNCHANGED << rawText, filename, text, vendorName, detectedCurrency, extracted, items,
                    strategy, quote, hashSeed, intCoercion, run, firstQuote >>
    /\ UNCHANGED auditVars

\* line 184
Vendor ==
    /\ pc = "vendor"
    /\ vendorName' = ExtractVendorName(text, filename)
    /\ invoked' = invoked \cup { "_extract_vendor_name" }
    /\ pc' = "currency"
    /\ UNCHANGED << rawText, filename, text, docType, detectedCurrency, extracted, items,
                    strategy, nlpResult, quote, hashSeed, intCoercion, run, firstQuote >>
    /\ UNCHANGED auditVars

\* line 187
Currency ==
    /\ pc = "currency"
    /\ detectedCurrency' = DetectCurrency(text)
    /\ invoked' = invoked \cup { "_detect_currency" }
    /\ pc' = "extract"
    /\ UNCHANGED << rawText, filename, text, docType, vendorName, extracted, items, strategy,
                    nlpResult, quote, hashSeed, intCoercion, run, firstQuote >>
    /\ UNCHANGED auditVars

\* hash(description) was evaluated (line 890): the items come from the branch
\* of the intelligent extraction that validates
UsesHash(ts, result) ==
    TextLen(ts) <= 200 /\ result.strategy = "intelligent" /\ result.items # << >>

Extracted(result, seed) ==
    /\ hashSeed' = IF UsesHash(text, result) THEN seed ELSE hashSeed
    /\ extracted' = result.items
    /\ strategy' = result.strategy

\* line 191; the hash seed of the process is fixed when a string is first hashed
Extract ==
    /\ pc = "extract"
    /\ \E seed \in (IF hashSeed # NoSeed THEN { hashSeed } ELSE 0..MaxSeed) :
         Extracted(ExtractItems(text, seed), seed)
    /\ invoked' = invoked \cup { "_extract_items" }
    /\ pc' = "convert"
    /\ UNCHANGED << rawText, filename, text, docType, vendorName, detectedCurrency, items,
                    nlpResult, quote, intCoercion, run, firstQuote >>
    /\ UNCHANGED auditVars

\* lines 194-206
Convert ==
    /\ pc = "convert"
    /\ IF detectedCurrency # BaseCurrency
       THEN /\ items' = ConvertCurrency(extracted, detectedCurrency)
            /\ invoked' = invoked \cup { "_convert_currency" }
       ELSE /\ items' = extracted
            /\ invoked' = invoked
    /\ IF items' = << >>
       THEN nlpResult' = NoItemsResult(vendorName) /\ pc' = "create"
       ELSE nlpResult' = nlpResult /\ pc' = "terms"
    /\ UNCHANGED << rawText, filename, text, docType, vendorName, detectedCurrency, extracted,
                    strategy, quote, hashSeed, intCoercion, run, firstQuote >>
    /\ UNCHANGED auditVars

\* lines 208-230
Terms ==
    /\ pc = "terms"
    /\ nlpResult' = QuoteResult(vendorName, items, ExtractTerms(text))
    /\ invoked' = invoked \cup { "_extract_terms" }
    /\ pc' = "create"
    /\ UNCHANGED << rawText, filename, text, docType, vendorName, detectedCurrency, extracted,
                    items, strategy, quote, hashSeed, intCoercion, run, firstQuote >>
    /\ UNCHANGED auditVars

\* lines 54-59; how pydantic coerces shows when a fractional quantity arrives
Create ==
    /\ pc = "create"
    /\ \E coercion \in (IF intCoercion # "unknown" THEN { intCoercion }
                        ELSE IF \E i \in 1..Len(nlpResult.items) : IsFractional(nlpResult.items[i])
                        THEN Coercions ELSE { "unknown" }) :
         /\ intCoercion' = coercion
         /\ quote' = CreateVendorQuote(nlpResult, coercion)
    /\ invoked' = invoked \cup { "_create_vendor_quote" }
    /\ pc' = "done"
    /\ UNCHANGED << rawText, filename, text, docType, vendorName, detectedCurrency, extracted,
                    items, strategy, nlpResult, hashSeed, run, firstQuote >>
    /\ UNCHANGED auditVars

\* lines 61-64
Fallback ==
    /\ pc = "fallback"
    /\ quote' = GetFallbackQuote
    /\ invoked' = invoked \cup { "_get_fallback_quote" }
    /\ pc' = "done"
    /\ UNCHANGED << rawText, filename, text, docType, vendorName, detectedCurrency, extracted,
                    items, strategy, nlpResult, hashSeed, intCoercion, run, firstQuote >>
    /\ UNCHANGED auditVars

\* the state of a call that has not started
Again ==
    /\ pc = "done" /\ run = 1
    /\ run' = 2
    /\ firstQuote' = quote
    /\ pc' = "analyze"
    /\ text' = << >>
    /\ docType' = ""
    /\ vendorName' = VendorName(<< >>, FALSE)
    /\ detectedCurrency' = ""
    /\ extracted' = << >>
    /\ items' = << >>
    /\ strategy' = ""
    /\ nlpResult' = NoResult
    /\ quote' = NoQuote
    /\ invoked' = {}
    /\ UNCHANGED << rawText, filename, intCoercion >>
    /\ UNCHANGED auditVars

\* the same input is analysed once more by the same process
Repeat == Again /\ hashSeed' = hashSeed

\* the same input is analysed once more by a new process
Restart == Again /\ hashSeed' = NoSeed

Next ==
    \/ Call
    \/ Analyze
    \/ Clean
    \/ Classify
    \/ Vendor
    \/ Currency
    \/ Extract
    \/ Convert
    \/ Terms
    \/ Create
    \/ Fallback
    \/ Repeat
    \/ Restart

Spec == Init /\ [][Next]_vars

-----------------------------------------------------------------------------
(* _validate_and_correct_item on its own: a candidate (description,        *)
(* quantity, unit_price, total_price) is validated and corrected.  The     *)
(* candidate is kept in extracted, the result in items.                    *)

\* total_price ranges over the multiples of 0.05 up to 0.05 * MaxTotalSteps
MaxTotalSteps == 2000

\* quantities, as fractions: 1, 2, 10, 2.5 and 0.05
CandidateQuantities ==
    { [num |-> 1, den |-> 1], [num |-> 2, den |-> 1], [num |-> 10, den |-> 1],
      [num |-> 5, den |-> 2], [num |-> 1, den |-> 20] }

\* unit prices -5.00 (a discount), 0.00, 1.00 and 5.00
CandidatePrices == { -500, 0, 100, 500 }

CandidateTotals == { 5 * k : k \in 0..MaxTotalSteps }

CandidateDescription == << Glue(Wd("Chair")) >>

\* "Chair", "123" and "A"
CandidateDescriptions ==
    { CandidateDescription, << Glue(Dg(123, 3)) >>, << Glue(Wd("A")) >> }

InitValidate ==
    /\ pc = "candidate"
    /\ rawText = NoneDocument
    /\ filename = ""
    /\ text = << >>
    /\ docType = ""
    /\ vendorName = VendorName(<< >>, FALSE)
    /\ detectedCurrency = ""
    /\ extracted = << >>
    /\ items = << >>
    /\ strategy = ""
    /\ nlpResult = NoResult
    /\ quote = NoQuote
    /\ invoked = {}
    /\ hashSeed = NoSeed
    /\ intCoercion = "unknown"
    /\ run = 1
    /\ firstQuote = NoQuote
    /\ AuditIdle

\* the caller has a candidate
Candidate ==
    /\ pc = "candidate"
    /\ \E q \in CandidateQuantities, unit_price \in CandidatePrices,
          total_price \in CandidateTotals, description \in CandidateDescriptions :
         extracted' = << ItemDict(ItemSku(0), description, q.num, q.den,
                                  unit_price, total_price, NoCorrection) >>
    /\ pc' = "validate"
    /\ UNCHANGED << rawText, filename, text, docType, vendorName, detectedCurrency, items,
                    strategy, nlpResult, quote, invoked, hashSeed, intCoercion, run,
                    firstQuote >>
    /\ UNCHANGED auditVars

\* lines 844-906
Validate ==
    /\ pc = "validate"
    /\ \E seed \in 0..MaxSeed :
         /\ hashSeed' = seed
         /\ items' = ValidateAndCorrectItem(extracted[1].description, extracted[1].quantity,
                                            extracted[1].qden, extracted[1].unitPrice,
                                            extracted[1].total, seed)
    /\ invoked' = invoked \cup { "_validate_and_correct_item" }
    /\ pc' = "validated"
    /\ UNCHANGED << rawText, filename, text, docType, vendorName, detectedCurrency, extracted,
                    strategy, nlpResult, quote, intCoercion, run, firstQuote >>
    /\ UNCHANGED auditVars

NextValidate ==
    \/ Candidate
    \/ Validate

SpecValidate == InitValidate /\ [][NextValidate]_vars

-----------------------------------------------------------------------------
(* _deduplicate_items on its own: the caller has a list of candidates,     *)
(* removes the duplicates, and removes them once more from the result.     *)

MaxCandidates == 3

\* 'Chair', ' Chair', 'chair' and 'Lamp'
DedupDescriptions ==
    { << Glue(Wd("Chair")) >>, << Wd("Chair") >>, << Glue(Wd("chair")) >>, << Glue(Wd("Lamp")) >> }

DedupPrices == { 500, 600 }

\* quantity, total and deliveryTime of a candidate
DedupRest == { << 1, 500, "7-10 days" >>, << 2, 1100, "TBD" >> }

DedupCandidates ==
    { [ ItemDict(ItemSku(0), description, rest[1], 1, unit_price, rest[2], NoCorrection)
          EXCEPT !.deliveryTime = rest[3] ] :
        description \in DedupDescriptions, unit_price \in DedupPrices, rest \in DedupRest }

\* the candidates get the skus ITEM-001, ITEM-002, ... in the order of the list
Numbered(its) == [ i \in 1..Len(its) |-> [ its[i] EXCEPT !.sku = ItemSku(i) ] ]

InitDedup ==
    /\ pc = "candidates"
    /\ rawText = NoneDocument
    /\ filename = ""
    /\ text = << >>
    /\ docType = ""
    /\ vendorName = VendorName(<< >>, FALSE)
    /\ detectedCurrency = ""
    /\ extracted \in { Numbered(its) : its \in SeqsUpTo(DedupCandidates, MaxCandidates) }
    /\ items = << >>
    /\ strategy = ""
    /\ nlpResult = NoResult
    /\ quote = NoQuote
    /\ invoked = {}
    /\ hashSeed = NoSeed
    /\ intCoercion = "unknown"
    /\ run = 1
    /\ firstQuote = NoQuote
    /\ AuditIdle

\* _deduplicate_items(items), lines 780-794
Deduplicate ==
    /\ pc = "candidates"
    /\ items' = DeduplicateItems(extracted)
    /\ pc' = "deduplicated"
    /\ UNCHANGED << rawText, filename, text, docType, vendorName, detectedCurrency, extracted,
                    strategy, nlpResult, quote, invoked, hashSeed, intCoercion, run,
                    firstQuote >>
    /\ UNCHANGED auditVars

\* _deduplicate_items of the list that it returned
DeduplicateAgain ==
    /\ pc = "deduplicated"
    /\ extracted' = items
    /\ items' = DeduplicateItems(items)
    /\ pc' = "again"
    /\ UNCHANGED << rawText, filename, text, docType, vendorName, detectedCurrency,
                    strategy, nlpResult, quote, invoked, hashSeed, intCoercion, run,
                    firstQuote >>
    /\ UNCHANGED auditVars

NextDedup ==
    \/ Deduplicate
    \/ DeduplicateAgain

SpecDedup == InitDedup /\ [][NextDedup]_vars

-----------------------------------------------------------------------------
(* CurrencyHandler.detect_currency (currency_handler.py) and               *)
(* AIProcessor._detect_currency on the same texts.                         *)

\* the keys of self.currency_patterns, in the order of the dict
HandlerCurrencies == << "USD", "EUR", "GBP", "CAD", "AUD", "JPY" >>

\* currency_info["symbols"], lower-cased, as needles; 'US$', 'C$', 'A$' need a
\* letter written directly before "$", which no text of the model has
HandlerSymbols(c) ==
    CASE c = "USD" -> { << "$" >>, << "usd" >>, << "dollars" >> }
      [] c = "EUR" -> { << "€" >>, << "eur" >>, << "euros" >> }
      [] c = "GBP" -> { << "£" >>, << "gbp" >>, << "pounds" >> }
      [] c = "CAD" -> { << "cad" >>, << "canadian", "dollars" >> }
      [] c = "AUD" -> { << "aud" >>, << "australian", "dollars" >> }
      [] c = "JPY" -> { << "¥" >>, << "jpy" >>, << "yen" >> }

\* self.currency_indicators, lower-cased
CurrencyIndicators ==
    { << "currency" >>, << "exchange", "rate" >>, << "conversion" >>, << "usd" >>, << "eur" >>,
      << "gbp" >>, << "cad" >>, << "aud" >>, << "jpy" >> }

\* currency_code.lower()
CodeNeedle(c) ==
    CASE c = "USD" -> << "usd" >>
      [] c = "EUR" -> << "eur" >>
      [] c = "GBP" -> << "gbp" >>
      [] c = "CAD" -> << "cad" >>
      [] c = "AUD" -> << "aud" >>
      [] c = "JPY" -> << "jpy" >>

\* currency_counts[c]: one detection for every symbol of c that occurs, and,
\* for every indicator that occurs, one more when the code of c occurs
CurrencyCounts(ts, c) ==
    Cardinality({ sy \in HandlerSymbols(c) : Contains(ts, sy) })
      + (IF Contains(ts, CodeNeedle(c))
         THEN Cardinality({ ind \in CurrencyIndicators : Contains(ts, ind) })
         ELSE 0)

\* the dict that detect_currency returns, without the list of detections;
\* max(currency_counts, key=currency_counts.get) is the first key with the
\* greatest count, and a currency's first detection is one of its symbols, so
\* that the keys are in the order of the table
HandlerDetectCurrency(ts) ==
    LET detected == { i \in 1..Len(HandlerCurrencies) : CurrencyCounts(ts, HandlerCurrencies[i]) > 0 }
        most == { i \in detected : \A j \in detected :
                     CurrencyCounts(ts, HandlerCurrencies[j]) <= CurrencyCounts(ts, HandlerCurrencies[i]) }
        primary_currency == HandlerCurrencies[Least(most)]
    IN  IF detected = {}
        THEN [ kind |-> "currency", primary_currency |-> "USD", confidence |-> "assumed",
               conversion_needed |-> FALSE ]
        ELSE [ kind |-> "currency", primary_currency |-> primary_currency,
               confidence |-> "detected", conversion_needed |-> primary_currency # "USD" ]

\* the number of tokens of a text
MaxTokens == 3

CurrencyTokens ==
    { Pn("$"), Wd("USD"), Wd("EUR"), Wd("euros"), Wd("GBP"), Wd("INR"), Wd("yen"),
      Wd("currency"), Wd("Chair") }

\* the tokens, one blank between two of them
CurrencyTexts == { Strip(q) : q \in SeqsUpTo(CurrencyTokens, MaxTokens) }

InitCurrency ==
    /\ pc = "text"
    /\ rawText = NoneDocument
    /\ filename = ""
    /\ text \in CurrencyTexts
    /\ docType = ""
    /\ vendorName = VendorName(<< >>, FALSE)
    /\ detectedCurrency = ""
    /\ extracted = << >>
    /\ items = << >>
    /\ strategy = ""
    /\ nlpResult = NoResult
    /\ quote = NoQuote
    /\ invoked = {}
    /\ hashSeed = NoSeed
    /\ intCoercion = "unknown"
    /\ run = 1
    /\ firstQuote = NoQuote
    /\ AuditIdle

\* ai_processor._detect_currency(text)
ProcessorDetects ==
    /\ pc = "text"
    /\ detectedCurrency' = DetectCurrency(text)
    /\ invoked' = invoked \cup { "_detect_currency" }
    /\ pc' = "processor"
    /\ UNCHANGED << rawText, filename, text, docType, vendorName, extracted, items, strategy,
                    nlpResult, quote, hashSeed, intCoercion, run, firstQuote >>
    /\ UNCHANGED auditVars

\* currency_handler.detect_currency(text), of the same text
HandlerDetects ==
    /\ pc = "processor"
    /\ report' = HandlerDetectCurrency(text)
    /\ pc' = "handler"
    /\ UNCHANGED << rawText, filename, text, docType, vendorName, detectedCurrency, extracted,
                    items, strategy, nlpResult, quote, invoked, hashSeed, intCoercion, run,
                    firstQuote >>
    /\ UNCHANGED << auditQuote, auditText, learned, patternFile, worker, accepted >>

NextCurrency ==
    \/ ProcessorDetects
    \/ HandlerDetects

SpecCurrency == InitCurrency /\ [][NextCurrency]_vars

-----------------------------------------------------------------------------
(* The audits, the store of learned patterns and its file as a state       *)
(* machine.  A worker process is down, idle, saving (the pattern is        *)
(* appended and the file is about to be opened) or writing (the file is    *)
(* open and the store is about to be dumped).  The calls of one process    *)
(* run one after the other: a call starts when the caller has taken the    *)
(* report of the call before.                                              *)

\* ObfuscationDetector(): the detector of the process loads the file (line 85)
Startup(w) ==
    /\ worker[w] = "down" /\ report = NoReport
    /\ learned' = [ learned EXCEPT ![w] = LoadLearnedPatterns(patternFile) ]
    /\ worker' = [ worker EXCEPT ![w] = "idle" ]
    /\ UNCHANGED << auditQuote, auditText, report, patternFile, accepted >>
    /\ UNCHANGED pipelineVars

\* the process is stopped and started again
RestartWorker(w) ==
    /\ worker[w] = "idle" /\ report = NoReport
    /\ learned' = [ learned EXCEPT ![w] = LoadLearnedPatterns(patternFile) ]
    /\ UNCHANGED << auditQuote, auditText, report, patternFile, worker, accepted >>
    /\ UNCHANGED pipelineVars

\* learn_new_pattern, lines 115-117
LearnNewPattern(w, category, pattern, confidence) ==
    /\ worker[w] = "idle" /\ report = NoReport
    /\ learned' = [ learned EXCEPT ![w] = Learned(learned[w], category, pattern, confidence) ]
    /\ accepted' = IF category \in DOMAIN learned[w] /\ confidence >= MediumConfidence
                   THEN accepted \cup { << category, pattern >> }
                   ELSE accepted
    /\ worker' = [ worker EXCEPT ![w] = IF learned'[w] # learned[w] THEN "saving" ELSE "idle" ]
    /\ UNCHANGED << auditQuote, auditText, report, patternFile >>
    /\ UNCHANGED pipelineVars

\* _save_learned_patterns, line 108: open(..., 'w') truncates the file, or it
\* raises and the except clause of line 110 prints the error
SaveOpen(w, fails) ==
    /\ worker[w] = "saving"
    /\ patternFile' = IF fails THEN patternFile ELSE EmptyFile
    /\ worker' = [ worker EXCEPT ![w] = IF fails THEN "idle" ELSE "writing" ]
    /\ UNCHANGED << auditQuote, auditText, report, learned, accepted >>
    /\ UNCHANGED pipelineVars

\* _save_learned_patterns, line 109: json.dump and the close of the file write
\* the store from the start of the file, or the write raises, nothing reaches
\* the file and the except clause of line 110 prints the error
SaveDump(w, fails) ==
    /\ worker[w] = "writing"
    /\ patternFile' = IF fails THEN patternFile
                      ELSE Overwritten(patternFile, WrittenFile(JsonDump(learned[w])))
    /\ worker' = [ worker EXCEPT ![w] = "idle" ]
    /\ UNCHANGED << auditQuote, auditText, report, learned, accepted >>
    /\ UNCHANGED pipelineVars

\* obfuscation_detector.analyze_quote(quote, raw_text) in process w
DetectObfuscation(w, quotes, texts) ==
    /\ worker[w] = "idle" /\ report = NoReport
    /\ \E q \in quotes, ids \in texts :
         /\ auditQuote' = q
         /\ auditText' = ids
         /\ report' = AnalyzeQuote(q, AuditText(ids), learned[w])
    /\ UNCHANGED << learned, patternFile, worker, accepted >>
    /\ UNCHANGED pipelineVars

\* math_validator.validate_quote(quote)
ValidateMath(quotes) ==
    /\ report = NoReport
    /\ \E q \in quotes :
         /\ auditQuote' = q
         /\ report' = ValidateQuote(q)
    /\ UNCHANGED << auditText, learned, patternFile, worker, accepted >>
    /\ UNCHANGED pipelineVars

\* the caller has the report
Return ==
    /\ report # NoReport
    /\ auditQuote' = NoQuote
    /\ auditText' = {}
    /\ report' = NoReport
    /\ UNCHANGED << learned, patternFile, worker, accepted >>
    /\ UNCHANGED pipelineVars

NextMath ==
    \/ ValidateMath(MathQuotes)
    \/ Return

\* validate_quote on its own
SpecMath == Init /\ [][NextMath]_vars

NextObfuscation ==
    \/ Startup(1)
    \/ LearnNewPattern(1, "hidden_fees", RushFee, 90)
    \/ SaveOpen(1, FALSE)
    \/ SaveDump(1, FALSE)
    \/ DetectObfuscation(1, ObfuscationQuotes, ObfuscationTexts)
    \/ Return

\* the detector of one process, which may have learned "rush fee" as a hidden fee
SpecObfuscation == Init /\ [][NextObfuscation]_vars

\* _analyze_quote_with_nlp from line 184 on, for the items after the conversion
QuoteAnalysis(ts, vendor_name, its) ==
    IF its = << >> THEN NoItemsResult(vendor_name)
    ELSE QuoteResult(vendor_name, its, ExtractTerms(ts))

\* lines 194-196
ConvertedItems(its, detected_currency) ==
    IF detected_currency # BaseCurrency THEN ConvertCurrency(its, detected_currency) ELSE its

\* _analyze_quote_with_nlp for the cleaned text
AnalyzeQuoteWithNlp(ts, fname, seed) ==
    IF DetectDocumentType(ts) # "quote" THEN NonQuoteResult(DetectDocumentType(ts))
    ELSE QuoteAnalysis(ts, ExtractVendorName(ts, fname),
                       ConvertedItems(ExtractItems(ts, seed).items, DetectCurrency(ts)))

\* AIProcessor.analyze_quote as one step
ProcessorAnalyzeQuote(doc, fname, seed, coercion) ==
    IF doc = NoneDocument THEN GetFallbackQuote
    ELSE CreateVendorQuote(AnalyzeQuoteWithNlp(CleanQuoteText(DocLines(doc)), fname, seed),
                           coercion)

\* ai_processor.analyze_quote(text_content, filename=fname); the hash seed and
\* the coercion of pydantic are those of the process
ExtractQuote(docs, fnames) ==
    /\ pc = "idle" /\ report = NoReport /\ quote = NoQuote
    /\ \E doc \in docs, fname \in fnames,
          seed \in (IF hashSeed # NoSeed THEN { hashSeed } ELSE 0..MaxSeed),
          coercion \in (IF intCoercion # "unknown" THEN { intCoercion } ELSE Coercions) :
         /\ rawText' = doc
         /\ filename' = fname
         /\ hashSeed' = seed
         /\ intCoercion' = coercion
         /\ quote' = ProcessorAnalyzeQuote(doc, fname, seed, coercion)
    /\ UNCHANGED << pc, text, docType, vendorName, detectedCurrency, extracted, items,
                    strategy, nlpResult, invoked, run, firstQuote >>
    /\ UNCHANGED auditVars

\* the caller has the quote
ReturnQuote ==
    /\ pc = "idle" /\ quote # NoQuote
    /\ rawText' = NoneDocument
    /\ filename' = ""
    /\ quote' = NoQuote
    /\ UNCHANGED << pc, text, docType, vendorName, detectedCurrency, extracted, items,
                    strategy, nlpResult, invoked, hashSeed, intCoercion, run, firstQuote >>
    /\ UNCHANGED auditVars

\* the categories, patterns and confidences (in hundredths) given to
\* learn_new_pattern; "volume_discounts" is not a key of the store
LearnCategories == { "hidden_fees", "bundled_pricing", "volume_discounts" }

LearnPatterns == { RushFee, OpenParenthesis }

Confidences == { 50, 70, 90 }

StoreQuotes == { AuditQuote(<< >>), AuditQuote(<< CleanItem >>), AuditQuote(<< FreeItem >>) }

StoreTexts == { {}, { 1 }, { 9 } }

\* 'Item: Office Chair - $125.00 x 50 = $6250.00' after two long sentences, and
\* an invoice
StoreDocuments ==
    { [ctx |-> "long", lines |-> << "office" >>], [ctx |-> "invoice", lines |-> << >>] }

NextStore ==
    \/ Startup(1)
    \/ RestartWorker(1)
    \/ \E category \in LearnCategories, pattern \in LearnPatterns, confidence \in Confidences :
         LearnNewPattern(1, category, pattern, confidence)
    \/ \E fails \in BOOLEAN : SaveOpen(1, fails)
    \/ \E fails \in BOOLEAN : SaveDump(1, fails)
    \/ DetectObfuscation(1, StoreQuotes, StoreTexts)
    \/ ValidateMath(StoreQuotes)
    \/ Return
    \/ ExtractQuote(StoreDocuments, { "" })
    \/ ReturnQuote

\* one process: its calls, its store and the file, whose writes may fail
SpecStore == Init /\ [][NextStore]_vars

NextWorkers ==
    \E w \in Workers :
        \/ Startup(w)
        \/ \E category \in LearnCategories, pattern \in LearnPatterns :
             LearnNewPattern(w, category, pattern, 90)
        \/ SaveOpen(w, FALSE)
        \/ SaveDump(w, FALSE)

\* the processes that share the file; the feedback endpoint calls
\* learn_new_pattern with the confidence 0.9 (main.py, lines 752-757), and no
\* write fails
SpecWorkers == Init /\ [][NextWorkers]_vars

-----------------------------------------------------------------------------
(* Properties of the returned VendorQuote.  Money is in cents, so 0.01 is  *)
(* 1 and a bound of 1% of an amount a is 100 * x <= a.                     *)

\* C1: every item of a returned VendorQuote has
\* |total - quantity * unitPrice| <= max(0.01, 0.01 * quantity * unitPrice),
\* whichever strategy produced it and whether or not it was converted.
C1_TotalConsistent ==
    pc = "done" =>
        \A i \in 1..Len(quote.items) :
            100 * Abs(quote.items[i].total - quote.items[i].quantity * quote.items[i].unitPrice)
                <= Greatest({ 100, quote.items[i].quantity * quote.items[i].unitPrice })

\* C2: every item of a returned VendorQuote has a quantity that is a positive
\* integer of at most 100000 and a description of at least 2 characters that
\* is not purely numeric.
C2_ItemValuesValid ==
    pc = "done" =>
        \A i \in 1..Len(quote.items) :
            /\ quote.items[i].quantity \in 1..MaxQuantity
            /\ DescLen(quote.items[i].description) >= 2
            /\ ~IsDigitString(quote.items[i].description)

\* C3: analyze_quote returns for every input, a text of None included, and
\* when the analysis fails or extracts no item the returned VendorQuote has no
\* items: an item is never fabricated.
C3_NoItemsOnFailure ==
    pc = "done" /\ extracted = << >> => quote.items = << >>

\* C4: when the document type is not "quote" the vendor name, the currency,
\* the items, the conversion and the terms are not computed in that call, and
\* the returned VendorQuote has no items.
C4_NonQuoteShortCircuits ==
    docType \notin { "", "quote" } =>
        /\ invoked \cap { "_extract_vendor_name", "_detect_currency", "_extract_items",
                          "_convert_currency", "_extract_terms" } = {}
        /\ pc = "done" => quote.items = << >>

\* an invoice with item lines has been answered
C4_InvoiceAnswered ==
    /\ pc = "done"
    /\ docType = "invoice"
    /\ rawText.lines # << >>
    /\ "_create_vendor_quote" \in invoked
    /\ quote.items = << >>

\* C5, as stated: a text that contains "invoice number" and "bill to" and no
\* quote keyword is answered with no items and the note that names the
\* invoice, whatever else the text contains.
C5_InvoiceHeaderInText ==
    /\ pc = "done"
    /\ Contains(Flatten(DocLines(rawText)), << "invoice", "number" >>)
    /\ Contains(Flatten(DocLines(rawText)), << "bill", "to" >>)
    /\ ~ContainsAny(Flatten(DocLines(rawText)), QuoteIndicators)
    => /\ quote.items = << >>
       /\ nlpResult.analysis_note = DocumentTypeNote("invoice")

\* C5, amended: when the cleaned text contains "invoice number" and "bill to",
\* no quote keyword and no receipt indicator, the answer has no items, the
\* note names the invoice and the vendor name is "Document Type: Invoice".
C5_InvoiceHeaderInCleanedText ==
    /\ pc = "done"
    /\ Contains(text, << "invoice", "number" >>)
    /\ Contains(text, << "bill", "to" >>)
    /\ ~ContainsAny(text, QuoteIndicators)
    /\ ~ContainsAny(text, ReceiptIndicators)
    => /\ quote.items = << >>
       /\ nlpResult.analysis_note = DocumentTypeNote("invoice")
       /\ quote.vendorName = DocumentTypeVendor("invoice")

\* an invoice header followed by item lines has been answered with the note
C5_InvoiceHeaderAnswered ==
    /\ pc = "done"
    /\ rawText.ctx = "invoice"
    /\ Len(rawText.lines) = MaxItemLines
    /\ Contains(text, << "invoice", "number" >>)
    /\ Contains(text, << "bill", "to" >>)
    /\ ~ContainsAny(text, ReceiptIndicators)
    /\ nlpResult.analysis_note = DocumentTypeNote("invoice")

\* C6: no two items of a returned VendorQuote have the same lower-cased,
\* trimmed description and the same unit price: lines that agree in both are
\* one item.
C6_NoDuplicateItems ==
    pc = "done" =>
        \A i, j \in 1..Len(quote.items) :
            i < j => DedupKey(quote.items[i]) # DedupKey(quote.items[j])

\* C7: a text of N different lines 'Item: <desc> - $<price> x <qty> = $<total>',
\* with or without lines around them, is answered with N items that carry the
\* quantity, unit price and total of their lines, whether the cleaned text is
\* longer than 200 characters or not; the Office Chair and Desk Lamp lines
\* followed by "Payment: Net 30" give totals 6250.00 and 4500.00 and the
\* payment terms "Net 30".
C7_OneItemPerLine ==
    /\ pc = "done"
    /\ rawText.ctx \in { "plain", "terms", "long", "longterms" }
    /\ rawText.lines # << >>
    /\ \A i, j \in 1..Len(rawText.lines) : i < j => rawText.lines[i] # rawText.lines[j]
    /\ \A i \in 1..Len(rawText.lines) : rawText.lines[i] \in { "consistent", "office", "desk" }
    => /\ Len(quote.items) = Len(rawText.lines)
       /\ \A i \in 1..Len(rawText.lines) :
              << quote.items[i].quantity, quote.items[i].unitPrice, quote.items[i].total >>
                  = CASE rawText.lines[i] = "consistent" -> << 10, 500, 5000 >>
                      [] rawText.lines[i] = "office" -> << 50, 12500, 625000 >>
                      [] rawText.lines[i] = "desk" -> << 100, 4500, 450000 >>
       /\ rawText.ctx \in { "terms", "longterms" } => quote.terms.payment = NetThirty

\* C8: a second analysis of the same text and filename, by the same process
\* or by another one, returns the VendorQuote of the first, sku included.
C8_Deterministic ==
    pc = "done" /\ run = 2 => quote = firstQuote

\* C9: when the detected currency is not the base currency, unitPrice and
\* total of every item are the amounts times the rate, rounded to 2 decimals,
\* the rate of EUR being 1.08, and the item keeps the amounts and the currency
\* it had.
C9_ConvertedAtHandlerRate ==
    "_convert_currency" \in invoked /\ detectedCurrency = "EUR" =>
        /\ Len(items) = Len(extracted)
        /\ \A i \in 1..Len(items) :
               /\ items[i].unitPrice = ConvertAmount(extracted[i].unitPrice, 108)
               /\ items[i].total = ConvertAmount(extracted[i].total, 108)
               /\ items[i].original = [kept |-> TRUE, unit_price |-> extracted[i].unitPrice,
                                       total |-> extracted[i].total, currency |-> "EUR"]

-----------------------------------------------------------------------------
(* Properties of _validate_and_correct_item, under SpecValidate.           *)

\* the relative discrepancy of the stated total from quantity * unit_price
\* exceeds pct percent
DiscrepancyAbove(quantity, unit_price, stated, pct) ==
    \/ 100 * Abs(stated - quantity * unit_price) > pct * Abs(quantity * unit_price)
    \/ /\ 100 * Abs(stated - quantity * unit_price) = pct * Abs(quantity * unit_price)
       /\ FloatAbove(quantity, unit_price, stated)

\* C10: for an accepted candidate with expected = quantity * unit_price and
\* relative discrepancy d of its total from expected: when d > 20% the total
\* becomes expected and a major correction with item, original_total,
\* corrected_total and error_percentage is recorded; when 5% < d <= 20% the
\* total becomes expected and nothing is recorded; when d <= 5% the total is
\* kept.  d is the discrepancy of the binary floating-point arguments.
C10_CorrectionThresholds ==
    pc = "validated" /\ items # << >> =>
        IF DiscrepancyAbove(items[1].quantity, extracted[1].unitPrice, extracted[1].total, 20)
        THEN /\ items[1].total = items[1].quantity * extracted[1].unitPrice
             /\ items[1].correction_info =
                    [ major |-> TRUE, item |-> extracted[1].description,
                      original_total |-> extracted[1].total,
                      corrected_total |-> items[1].quantity * extracted[1].unitPrice,
                      errNum |-> 100 * Abs(extracted[1].total
                                             - items[1].quantity * extracted[1].unitPrice),
                      errDen |-> items[1].quantity * extracted[1].unitPrice ]
        ELSE IF DiscrepancyAbove(items[1].quantity, extracted[1].unitPrice,
                                 extracted[1].total, 5)
        THEN /\ items[1].total = items[1].quantity * extracted[1].unitPrice
             /\ items[1].correction_info = NoCorrection
        ELSE /\ items[1].total = extracted[1].total
             /\ items[1].correction_info = NoCorrection

\* quantity 10, unit price 5.00 and total 100.00 have become total 50.00 with
\* a major correction of 100%
C10_MajorCorrectionExample ==
    /\ pc = "validated"
    /\ extracted[1].quantity = 10 /\ extracted[1].qden = 1
    /\ extracted[1].unitPrice = 500 /\ extracted[1].total = 10000
    /\ items # << >>
    /\ items[1].total = 5000
    /\ items[1].correction_info.major
    /\ items[1].correction_info.original_total = 10000
    /\ items[1].correction_info.corrected_total = 5000
    /\ items[1].correction_info.errNum = 100 * items[1].correction_info.errDen

\* C11: a candidate is accepted exactly when its rounded quantity is in
\* 1..100000, its unit price lies in [-100000, 100000] and its description has
\* at least 2 characters and is not purely numeric; a negative or zero unit
\* price in that range is accepted.
C11_AcceptedExactlyWhenInRange ==
    pc = "validated" =>
        (items # << >>
           <=> /\ RoundHalfEven(extracted[1].quantity, extracted[1].qden) \in 1..MaxQuantity
               /\ extracted[1].unitPrice >= 0 - MaxUnitPrice
               /\ extracted[1].unitPrice <= MaxUnitPrice
               /\ DescLen(extracted[1].description) >= 2
               /\ ~IsDigitString(extracted[1].description))

\* C20: the classifier answers "receipt" if a receipt indicator occurs in its
\* text, otherwise "invoice" if an invoice indicator occurs, otherwise "quote",
\* whether or not a quote indicator occurs.
C20_ClassifierPriority ==
    docType # "" =>
        /\ ContainsAny(text, ReceiptIndicators) => docType = "receipt"
        /\ ~ContainsAny(text, ReceiptIndicators) /\ ContainsAny(text, InvoiceIndicators)
             => docType = "invoice"
        /\ ~ContainsAny(text, ReceiptIndicators) /\ ~ContainsAny(text, InvoiceIndicators)
             => docType = "quote"

\* a text with receipt and invoice indicators was classified as a receipt
C20_SeveralCategories ==
    /\ docType = "receipt"
    /\ ContainsAny(text, ReceiptIndicators)
    /\ ContainsAny(text, InvoiceIndicators)

\* C18: the vendor name resolved is never empty, and a name longer than 50
\* characters is cut to its first 50 characters followed by an ellipsis, on
\* every path (file name, patterns over the text, the text itself, or "Unknown
\* Vendor").
C18_NameNonEmptyAndCut ==
    "_extract_vendor_name" \in invoked =>
        /\ DescLen(vendorName.text) >= 1
        /\ DescLen(vendorName.text) > 50 => vendorName.truncated

\* C19: when items were extracted the payment term is the group of the first
\* payment pattern that matches, "Net 30" if none does, and the warranty term
\* the group of the first warranty pattern that matches, "Standard warranty" if
\* none does; when no strategy found an item the terms are payment "TBD" and
\* warranty "N/A".
C19_TermsDefaults ==
    pc = "done" /\ "_create_vendor_quote" \in invoked =>
        /\ nlpResult.analysis_note = NoPricingNote
             => quote.terms = [payment |-> ToBeDetermined, warranty |-> NotApplicable]
        /\ "_extract_terms" \in invoked
             => /\ quote.terms.payment
                     = FirstTerm(<< LabelledTerm(text, "payment"), NetDays(text),
                                    CountDays(text) >>, NetThirty)
                /\ quote.terms.warranty
                     = FirstTerm(<< LabelledTerm(text, "warranty"), WarrantyYears(text) >>,
                                 StandardWarranty)

\* C13: the validation score is 100 when the report has no issue and
\* max(20, 100 - 10 * issues) otherwise, and the status is valid for no issue,
\* minor_issues for 1 or 2, moderate_issues for 3 to 5 and major_issues for
\* more, for every quote, one with an empty item list included.
C13_ScoreAndStatus ==
    report.kind = "validation" =>
        /\ report.validation_score
             = (IF Len(report.issues) = 0 THEN 100
                ELSE Greatest({ 20, 100 - 10 * Len(report.issues) }))
        /\ report.status
             = (IF Len(report.issues) = 0 THEN "valid"
                ELSE IF Len(report.issues) <= 2 THEN "minor_issues"
                ELSE IF Len(report.issues) <= 5 THEN "moderate_issues"
                ELSE "major_issues")

\* the factors that the text and the items of the audited quote trigger: the
\* sentences 1 to 3 name a hidden fee, as sentence 9 does once "rush fee" is a
\* learned hidden fee; sentence 4 names a bundle, 5 a condition, 6 a complex
\* structure and 7 an uncertain price
TriggeredPoints(ids, its, rush) ==
    (IF ids \cap HiddenFeeSentences # {} \/ (9 \in ids /\ rush) THEN 30 ELSE 0)
    + (IF 4 \in ids THEN 20 ELSE 0)
    + (IF 5 \in ids THEN 25 ELSE 0)
    + (IF 6 \in ids THEN 35 ELSE 0)
    + (IF 7 \in ids THEN 20 ELSE 0)
    + (IF \E i \in 1..Len(its) : \/ its[i].unitPrice <= 0
                                  \/ its[i].unitPrice > 1000000
                                  \/ its[i].deliveryTime = "TBD"
       THEN 40 ELSE 0)
    + (IF /\ Len(its) >= 2
          /\ \/ \E i, j \in 1..Len(its) : /\ its[i].unitPrice > 0
                                           /\ its[j].unitPrice > 100 * its[i].unitPrice
             \/ \E i \in 1..Len(its) :
                    /\ its[i].quantity > 1 /\ its[i].unitPrice > 0
                    /\ 2 * its[i].total < its[i].quantity * its[i].unitPrice
       THEN 15 ELSE 0)

\* C12: the risk score is min(100, the sum of the points of the triggered
\* factors), every factor counted once (hidden fees 30, bundled 20, conditional
\* 25, complex 35, contextual 20, suspicious items 40, inconsistencies 15), and
\* the risk level is low below 40, medium below 70 and high from 70 on.
C12_RiskScore ==
    report.kind = "obfuscation" =>
        /\ report.risk_score
             = Least({ 100, TriggeredPoints(auditText, auditQuote.items,
                                            learned[1]["hidden_fees"] # << >>) })
        /\ report.risk_level
             = (IF report.risk_score < 40 THEN "low"
                ELSE IF report.risk_score < 70 THEN "medium"
                ELSE "high")

\* three hidden-fee phrases and one item with a unit price of zero, and nothing
\* else, scored 70 and high
C12_ThreeFeesAndFreeItem ==
    /\ report.kind = "obfuscation"
    /\ auditText = HiddenFeeSentences
    /\ auditQuote.items = << FreeItem >>
    /\ report.risk_score = 70
    /\ report.risk_level = "high"

\* t is s with patterns appended at its end
IsExtension(s, t) == Len(s) <= Len(t) /\ SubSeq(t, 1, Len(s)) = s

\* C14: every call leaves each list of the store of its process as it was or
\* with patterns appended at its end, no list has a pattern twice, and the
\* store changes in a call of learn_new_pattern only (a restart of the process
\* is not a call).
C14_AppendOnly ==
    [][ \/ RestartWorker(1)
        \/ /\ \A c \in LearnedCategories :
                 /\ IsExtension(learned[1][c], learned'[1][c])
                 /\ \A i, j \in 1..Len(learned'[1][c]) :
                        learned'[1][c][i] = learned'[1][c][j] => i = j
           /\ learned' # learned
                => \E category \in LearnCategories, pattern \in LearnPatterns,
                      confidence \in Confidences :
                        LearnNewPattern(1, category, pattern, confidence) ]_vars

\* two patterns were learned as hidden fees, one after the other, and an audit
\* has run since
C14_TwoLearnedThenAudit ==
    /\ learned[1]["hidden_fees"] = << RushFee, OpenParenthesis >>
    /\ report.kind = "validation"

\* C15: once every call of learn_new_pattern has completed, in whichever
\* process, the file is a well-formed store that has every pattern that a
\* call accepted.
C15_NoLostFeedback ==
    (accepted # {} /\ \A w \in Workers : worker[w] \in { "down", "idle" }) =>
        /\ patternFile.exists /\ patternFile.json
        /\ \A pair \in accepted :
               \E i \in 1..Len(JsonLoad(patternFile.pairs)[pair[1]]) :
                   JsonLoad(patternFile.pairs)[pair[1]][i] = pair[2]

\* C16: when no call is running the file, once a pattern was learned, is the
\* dump of the store of the process, and the store that a restart loads from
\* the file is the store of the process, also after a write that failed.
C16_FileEqualsStore ==
    worker[1] = "idle" =>
        /\ LoadLearnedPatterns(patternFile) = learned[1]
        /\ learned[1] # DefaultStore => patternFile = WrittenFile(JsonDump(learned[1]))

\* C17: analyze_quote of the detector never raises, whatever was learned.
C17_NeverRaises == report.kind # "raised"

\* C29: learn_new_pattern changes nothing, and writes no file, when the
\* category is not a key of the store, when the confidence is below 0.70 or
\* when the category has the pattern already; otherwise it appends that one
\* pattern to that one category, leaves every other category as it was and
\* goes on to write the file.
C29_LearnFrame ==
    [][ \A category \in LearnCategories, pattern \in LearnPatterns,
           confidence \in Confidences :
          LearnNewPattern(1, category, pattern, confidence) =>
            /\ patternFile' = patternFile
            /\ IF \/ category \notin LearnedCategories
                  \/ confidence < 70
                  \/ \E i \in 1..Len(learned[1][category]) :
                        learned[1][category][i] = pattern
               THEN learned' = learned /\ worker'[1] = "idle"
               ELSE /\ learned'[1][category] = Append(learned[1][category], pattern)
                    /\ \A c \in LearnedCategories \ { category } :
                          learned'[1][c] = learned[1][c]
                    /\ worker'[1] = "saving" ]_vars

\* a pattern was learned in each of two categories and both were written
C29_TwoCategoriesLearned ==
    /\ learned[1]["hidden_fees"] = << RushFee >>
    /\ learned[1]["bundled_pricing"] = << OpenParenthesis >>
    /\ worker[1] = "idle"
    /\ patternFile = WrittenFile(JsonDump(learned[1]))

\* C25: the validator reports a suspicious_price or unusual_quantity issue
\* for an item exactly when its unit price is above 10,000 or its quantity is
\* above 100,000.
C25_SuspiciousThresholds ==
    report.kind = "validation" =>
        \A i \in 1..Len(auditQuote.items) :
            (\E k \in 1..Len(report.issues) :
                /\ report.issues[k].type \in { "suspicious_price", "unusual_quantity" }
                /\ report.issues[k].item_index = << i - 1 >>)
            <=> \/ auditQuote.items[i].unitPrice > 1000000
                \/ auditQuote.items[i].quantity > 100000

\* C26: the validator gives as many large_bulk_discount warnings as the quote
\* has items with quantity > 1 and unit price > 0 whose total is more than
\* 50% below quantity * unitPrice.
C26_BulkDiscountAboveHalf ==
    report.kind = "validation" =>
        Cardinality({ k \in 1..Len(report.warnings) :
                        report.warnings[k] = "large_bulk_discount" })
        = Cardinality({ i \in 1..Len(auditQuote.items) :
                        /\ auditQuote.items[i].quantity > 1
                        /\ auditQuote.items[i].unitPrice > 0
                        /\ 2 * auditQuote.items[i].total
                             < auditQuote.items[i].quantity * auditQuote.items[i].unitPrice })

\* C30: a quote with items, each with 0 < unitPrice <= 10,000, 1 <= quantity
\* <= 10,000 and a total within one cent of quantity * unitPrice, and without
\* a description group whose prices differ by more than 100 times, has no
\* issue, the status "valid" and the score 100.
C30_WithinToleranceIsValid ==
    ( /\ report.kind = "validation"
      /\ auditQuote.items # << >>
      /\ \A i \in 1..Len(auditQuote.items) :
            /\ auditQuote.items[i].unitPrice > 0
            /\ auditQuote.items[i].unitPrice <= 1000000
            /\ auditQuote.items[i].quantity >= 1
            /\ auditQuote.items[i].quantity <= 10000
            /\ Abs(auditQuote.items[i].total
                     - auditQuote.items[i].quantity * auditQuote.items[i].unitPrice) <= 1
            /\ ~ExtremeVariation(auditQuote.items, i, GroupPrices(auditQuote.items, i)) )
    => /\ report.total_issues = 0
       /\ report.status = "valid"
       /\ report.validation_score = 100

\* the key of the specification: trimmed lower-case description and unit price
GroupKey(it) == << LowerText(Strip(it.description)), it.unitPrice >>

\* the members of the list that have the key of item o
GroupOf(its, o) == { j \in 1..Len(its) : GroupKey(its[j]) = GroupKey(o) }

RECURSIVE SumQuantity(_, _)
SumQuantity(its, S) ==
    IF S = {} THEN 0
    ELSE its[Least(S)].quantity + SumQuantity(its, S \ { Least(S) })

RECURSIVE SumTotal(_, _)
SumTotal(its, S) ==
    IF S = {} THEN 0
    ELSE its[Least(S)].total + SumTotal(its, S \ { Least(S) })

\* C28: _deduplicate_items returns one item for every key (trimmed lower-case
\* description, unit price) of its list; the item has the summed quantity and
\* total of the group and the sku, description and deliveryTime of the last
\* member; the sums over the whole list are kept; and the result of a second
\* application is the list it was given.
C28_OnePerKeyAndIdempotent ==
    /\ pc = "deduplicated" =>
          /\ \A i, j \in 1..Len(items) : GroupKey(items[i]) = GroupKey(items[j]) => i = j
          /\ { GroupKey(items[i]) : i \in 1..Len(items) }
               = { GroupKey(extracted[j]) : j \in 1..Len(extracted) }
          /\ \A i \in 1..Len(items) :
                /\ items[i].qden = 1
                /\ items[i].quantity = SumQuantity(extracted, GroupOf(extracted, items[i]))
                /\ items[i].total = SumTotal(extracted, GroupOf(extracted, items[i]))
                /\ items[i].sku = extracted[Greatest(GroupOf(extracted, items[i]))].sku
                /\ items[i].description
                     = extracted[Greatest(GroupOf(extracted, items[i]))].description
                /\ items[i].deliveryTime
                     = extracted[Greatest(GroupOf(extracted, items[i]))].deliveryTime
          /\ SumQuantity(items, 1..Len(items)) = SumQuantity(extracted, 1..Len(extracted))
          /\ SumTotal(items, 1..Len(items)) = SumTotal(extracted, 1..Len(extracted))
    /\ pc = "again" => items = extracted

\* 'Chair' and 'chair' at one price were merged, a 'Chair' at another price
\* was kept apart, and the result was deduplicated again
C28_MergedAcrossCase ==
    /\ pc = "again"
    /\ Len(items) = 2
    /\ items[1].description = << Glue(Wd("chair")) >>
    /\ items[1].quantity = 3 /\ items[1].total = 1600
    /\ items[1].sku = ItemSku(3) /\ items[1].deliveryTime = "TBD"
    /\ items[2].description = << Glue(Wd("Chair")) >>
    /\ items[2].unitPrice # items[1].unitPrice

\* the list that a strategy returned for the text of the call
StrategyResult(name, seed) ==
    IF name = "intelligent" THEN IntelligentItemExtraction(text, seed) ELSE PatternItems(text)

\* C21: _extract_items returns the list of the intelligent extraction when it
\* is not empty; the list of the patterns only when the intelligent extraction
\* returned nothing and the patterns found something; and nothing when both
\* returned nothing.  The returned list is the list of that one strategy.
C21_FirstNonEmptyStrategy ==
    strategy # "" =>
        \E seed \in (IF hashSeed # NoSeed THEN { hashSeed } ELSE 0..MaxSeed) :
            \/ /\ strategy = "intelligent"
               /\ extracted = StrategyResult("intelligent", seed)
               /\ extracted # << >>
            \/ /\ strategy = "pattern"
               /\ StrategyResult("intelligent", seed) = << >>
               /\ extracted = StrategyResult("pattern", seed)
               /\ extracted # << >>
            \/ /\ strategy = "none"
               /\ StrategyResult("intelligent", seed) = << >>
               /\ StrategyResult("pattern", seed) = << >>
               /\ extracted = << >>

\* the intelligent extraction returned items for a text in which the patterns
\* match as well, and with other items
C21_IntelligentBeforePatterns ==
    /\ strategy = "intelligent"
    /\ PatternItems(text) # << >>
    /\ PatternItems(text) # extracted

\* what _validate_and_correct_item returns for the values of an item
Revalidated(it) ==
    ValidateAndCorrectItem(it.description, it.quantity, it.qden, it.unitPrice, it.total, 0)

\* _validate_and_correct_item accepts the item and returns its values
AcceptedByValidator(it, validated) ==
    /\ validated # << >>
    /\ validated[1].quantity = it.quantity /\ validated[1].qden = it.qden
    /\ validated[1].unitPrice = it.unitPrice
    /\ validated[1].total = it.total

\* C22: every item that _extract_items returns went through
\* _validate_and_correct_item: the validator accepts it and has nothing left
\* to correct in it.
C22_EveryItemValidated ==
    strategy # "" =>
        \A i \in 1..Len(extracted) : AcceptedByValidator(extracted[i], Revalidated(extracted[i]))

\* the words that make line 605 or 606 take a labelled price or total
PriceLabels ==
    { << "price" >>, << "cost" >>, << "total" >>, << "amount" >>, << "sum" >> }

\* the line is processed by the multi-line branch, has two or more numbers, a
\* description before its first "$", and neither the "x" format nor a
\* labelled price, total or quantity
TwoAmountsLine(ts) ==
    /\ ts # << >> /\ TextLen(ts) >= 5 /\ TextLen(ts) <= 200
    /\ ~OnlySkipWords(ts)
    /\ Contains(ts, << "$" >>)
    /\ Len(Amounts(ts)) >= 2
    /\ XFormat(ts) = << >>
    /\ QtyMatch(ts) = << >>
    /\ ~ContainsAny(ts, PriceLabels)
    /\ FirstDollar(ts) > 1

\* the item of the candidate with the first number as unit price, the last
\* number as total and the quantity derived from the two
FirstAndLast(ts, am, seed) ==
    LineItem(LineDescription(ts, FirstDollar(ts)),
             CalculatedQuantity(NumCents(ts, am[1]), NumCents(ts, am[Len(am)])),
             NumCents(ts, am[1]), NumCents(ts, am[Len(am)]), seed)

\* C23: for a line with two or more numbers and no "x" format the intelligent
\* extraction hands the candidate (first number, last number, derived
\* quantity) to the validator, and the item that the validator returns for it
\* is the result of _extract_items, also when the line is the first line of
\* the call.
C23_FirstAndLastAmount ==
    ( /\ strategy # ""
      /\ TwoAmountsLine(text)
      /\ FirstAndLast(text, Amounts(text), 0) # << >> )
    => /\ strategy = "intelligent"
       /\ \E seed \in 0..MaxSeed : extracted = FirstAndLast(text, Amounts(text), seed)

\* C24: the validator acts on the converted prices: when the prices of a call
\* were converted and the items were valid before the conversion, every item
\* after the conversion is one that _validate_and_correct_item accepts and
\* leaves as it is.
C24_ValidAfterConversion ==
    ( /\ "_convert_currency" \in invoked
      /\ \A i \in 1..Len(extracted) :
            AcceptedByValidator(extracted[i], Revalidated(extracted[i])) )
    => \A i \in 1..Len(items) : AcceptedByValidator(items[i], Revalidated(items[i]))

\* the patterns of currency c in the table of _detect_currency that have a
\* hit in the text
IndicatorHits(ts, c) == Cardinality({ p \in CurrencyPatterns(c) : Contains(ts, p) })

\* C27: the primary currency is chosen by majority vote: no currency of the
\* table has more indicator hits in the text than the one _detect_currency
\* returns, USD is returned when nothing hits, and
\* CurrencyHandler.detect_currency returns the same primary currency for the
\* same text.
C27_MajorityVote ==
    /\ detectedCurrency # "" =>
          \A i \in 1..Len(CurrencyOrder) :
              IndicatorHits(text, CurrencyOrder[i]) <= IndicatorHits(text, detectedCurrency)
    /\ report.kind = "currency" => report.primary_currency = detectedCurrency

=============================================================================
